---- MODULE Spec2Model ----
(***************************************************************************)
(* A model of the single-linear-pass caching memory scheduler of           *)
(* tile/codegen/schedule.cc (Scheduler::Run and its helpers).              *)
(*                                                                         *)
(* A statement is known by its id: the original statements of the block    *)
(* are 1..n in runtime order, and every inserted transfer block gets the   *)
(* next free id.  `order` is block_->stmts (the list of ids), a            *)
(* StatementIt is an id, and 0 stands for stmts.end() / a null pointer.    *)
(* A cache entry is known by its index in cache_entries_.  A memory range   *)
(* [begin, end) is the pair <<begin, end>>; sizes are in bytes.             *)
(* A TensorShape is represented by its byte size, a vector of access       *)
(* affines by a sequence of offsets (<<>> is the empty vector).            *)
(***************************************************************************)
EXTENDS Integers, Sequences, FiniteSets, TLC

VARIABLES
  options,        \* proto::SchedulePass: [mem_kib, alignment]
  block,          \* the block as given: [refs, addr, stmts]
  pc,             \* where Run() is: "loop", "final", "tdeps", "done", "exhausted"
  si,             \* the loop's iterator: the statement scheduled last (0 = stmts.end())
  order,          \* block_->stmts: the list of statement ids
  stmts,          \* the statement behind each id (originals, then inserted transfers)
  deps,           \* Statement::deps of each id, a vector of ids
  bound,          \* what StatementBinder wrote into each original statement
  ri_map,         \* ri_map_: RefInfo of each refinement
  cache_entries,  \* cache_entries_
  active,         \* active_affine_entries_: unit -> list of entry indices
  block_refs,     \* block_->refs, the refinement list of the block
  error,          \* the exception thrown by Run(), if any
  log,            \* what Run() wrote with LOG(WARNING)
  plans           \* the IVLOG trace of TryMakePlan: statement id -> strategy that made its plan

vars == <<options, block, pc, si, order, stmts, deps, bound, ri_map,
          cache_entries, active, block_refs, error, log, plans>>

-----------------------------------------------------------------------------
(* Bounds of the model and constants of the program *)

\* The longest block that is scheduled (number of original statements).
MaxStmts == 3

\* schedule.cc: constexpr std::size_t kDefaultAlignment = 4
kDefaultAlignment == 4

\* Scheduler::Scheduler: mem_bytes_{options.mem_kib() * 1024}
KiB == 1024

\* CacheEntry::CacheEntry: the character between the name of the source and the
\* counter.  A name is the sequence of its characters: a letter is the number of
\* a refinement, a digit is its value.
Caret == 94

RefIds == {1, 2, 3}
Units == {0, 1}

-----------------------------------------------------------------------------
(* Generic helpers *)

\* A function on 1..n as the tuple of its values.
Tuple(f) == f \o <<>>

RECURSIVE SeqToSet(_)
SeqToSet(s) == IF s = <<>> THEN {} ELSE {Head(s)} \cup SeqToSet(Tail(s))

Pos(list, x) == CHOOSE i \in 1..Len(list) : list[i] = x

RemoveAt(list, i) == SubSeq(list, 1, i - 1) \o SubSeq(list, i + 1, Len(list))

\* std::list::emplace(it, x): insert x before the element `before` (0 = end()).
InsertBefore(list, before, x) ==
  IF before = 0 THEN Append(list, x)
  ELSE LET p == Pos(list, before)
       IN SubSeq(list, 1, p - 1) \o <<x>> \o SubSeq(list, p, Len(list))

\* An iterator that is not advanced: what is emplaced at it goes before x, not
\* after it.  C12 does not hold of it.
NextIt_Same(list, x) == x

\* ++it on a list iterator (0 = end()).
NextIt(list, x) ==
  LET p == Pos(list, x) IN IF p = Len(list) THEN 0 ELSE list[p + 1]

\* An iterator that is not decremented once it points at a statement: the loop
\* stays on the last statement.  C33 does not hold of it.
PrevIt_Same(list, x) == IF x = 0 THEN list[Len(list)] ELSE x

\* --it on a list iterator (0 = end()).
PrevIt(list, x) ==
  IF x = 0 THEN list[Len(list)] ELSE list[Pos(list, x) - 1]

-----------------------------------------------------------------------------
(* stripe::RefDir *)

IsReadDir(d) == d \in {"In", "InOut"}
IsWriteDir(d) == d \in {"Out", "InOut"}

UnionDir(a, b) ==
  IF a = "None" THEN b
  ELSE IF b = "None" THEN a
  ELSE IF a = b THEN a
  ELSE "InOut"

-----------------------------------------------------------------------------
(* MemRange *)

RangeSize(r) == r[2] - r[1]

RangesOverlap(a, b) == (a[1] < b[2]) /\ (b[1] < a[2])

RangesOverlapList(range, range_list) ==
  \E i \in 1..Len(range_list) : RangesOverlap(range, range_list[i])

\* SubtractRange(sub, range_list, it): the four cases on the range at index i.
SubtractRangeAt(sub, range_list, i) ==
  LET range == range_list[i] IN
  IF sub[1] <= range[1]
  THEN IF sub[2] < range[2]
       THEN [range_list EXCEPT ![i] = <<sub[2], range[2]>>]
       ELSE RemoveAt(range_list, i)
  ELSE IF range[2] < sub[2]
       THEN [range_list EXCEPT ![i] = <<range[1], sub[1]>>]
       ELSE <<<<range[1], sub[1]>>>> \o [range_list EXCEPT ![i] = <<sub[2], range[2]>>]

\* SubtractRange(sub, range_list): walks the list once; an element put at the
\* front by a split is not visited again.  i is the index of the next element
\* to visit.
RECURSIVE SubtractRangeFrom(_, _, _)
SubtractRangeFrom(sub, range_list, i) ==
  IF i > Len(range_list) THEN range_list
  ELSE IF ~RangesOverlap(sub, range_list[i])
       THEN SubtractRangeFrom(sub, range_list, i + 1)
       ELSE LET nl == SubtractRangeAt(sub, range_list, i)
            IN SubtractRangeFrom(sub, nl, i + 1 + (Len(nl) - Len(range_list)))

\* SubtractRange without the trimming of a range that sub covers in part: only
\* the ranges that lie within sub go.  C2 does not hold of it.
SubtractRange_WholeOnly(sub, range_list) ==
  LET Within(i) == sub[1] <= range_list[i][1] /\ range_list[i][2] <= sub[2]
      Kept(n) == {i \in 1..Len(range_list) : i <= n /\ ~Within(i)}
  IN Tuple([k \in 1..Cardinality(Kept(Len(range_list))) |->
              range_list[CHOOSE i \in Kept(Len(range_list)) : Cardinality(Kept(i)) = k]])

SubtractRange(sub, range_list) == SubtractRangeFrom(sub, range_list, 1)

\* math::Align(size, alignment)
\* math::Align that rounds nothing up.  C22 does not hold of it.
Align_None(size, alignment) == size

Align(size, alignment) == ((size + alignment - 1) \div alignment) * alignment

-----------------------------------------------------------------------------
(* Scheduler::Scheduler: the options as the scheduler holds them *)

mem_bytes == options.mem_kib * KiB

alignment == IF options.alignment # 0 THEN options.alignment ELSE kDefaultAlignment

-----------------------------------------------------------------------------
(* RefInfo: what the constructor derives from the refinement *)

\* RefInfo::size: the byte size of the exterior cache shape.
RefSize(r) == block.refs[r].size

RefUnit(r) == block.refs[r].unit

\* RefInfo::name: ref.into
RefName(r) == block.names[r]

\* AliasInfo::Compare(a, b) # AliasType::None: the two refinements view the same
\* base refinement and their extents intersect.
AliasOverlap(a, b) ==
  /\ block.refs[a].base = block.refs[b].base
  /\ block.refs[a].cells \cap block.refs[b].cells # {}

\* *ri->aliases: the RefInfos that refine the same base refinement, in the
\* order of ri_map_ (by name).
RECURSIVE AliasesFrom(_, _)
AliasesFrom(r, k) ==
  IF k \notin RefIds THEN <<>>
  ELSE (IF block.refs[k].base = block.refs[r].base THEN <<k>> ELSE <<>>)
       \o AliasesFrom(r, k + 1)

Aliases(r) == AliasesFrom(r, 1)

\* Statement::buffer_writes(): the refinements a statement writes.
BufferWrites(stmt) ==
  IF stmt.kind = "store" THEN {stmt.into}
  ELSE IF stmt.kind = "special" THEN SeqToSet(stmt.outputs)
  ELSE IF stmt.kind = "block"
       THEN {stmt.refs[i].from : i \in {j \in 1..Len(stmt.refs) : IsWriteDir(stmt.refs[j].dir)}}
  ELSE {}

\* Statement::buffer_reads(): the refinements a statement reads.
BufferReads(stmt) ==
  IF stmt.kind = "load" THEN {stmt.from}
  ELSE IF stmt.kind = "special" THEN SeqToSet(stmt.inputs)
  ELSE IF stmt.kind = "block"
       THEN {stmt.refs[i].from : i \in {j \in 1..Len(stmt.refs) : IsReadDir(stmt.refs[j].dir)}}
  ELSE {}

\* BuildRefInfoMap: the first statement, in runtime order, that writes r (0 = none).
EarliestWriter(stmt_list, r) ==
  LET ws == {i \in 1..Len(stmt_list) : r \in BufferWrites(stmt_list[i])}
  IN IF ws = {} THEN 0 ELSE CHOOSE i \in ws : \A j \in ws : i <= j

\* Scheduler::BuildRefInfoMap
BuildRefInfoMap(b) ==
  [r \in RefIds |->
     [cache_entry |-> 0,
      used |-> FALSE,
      saw_final_write |-> FALSE,
      swap_in_readers |-> {},
      next_cache_entry |-> 0,
      earliest_writer |-> EarliestWriter(b.stmts, r)]]

-----------------------------------------------------------------------------
(* IO and IOGatherer *)

\* IO(ri, dir): the interior shape is the exterior cache shape.
IO(r, dir) ==
  [ri |-> r, dir |-> dir, interior_shape |-> RefSize(r),
   interior_name |-> "", access |-> <<>>]

\* IO(ri, interior_ref): the shape, name and access of a sub-block's refinement.
BlockIO(ref) ==
  [ri |-> ref.from, dir |-> ref.dir, interior_shape |-> ref.interior_shape,
   interior_name |-> ref.into, access |-> ref.access]

\* All orderings of a set, as sequences: the iteration order of an unordered_map.
RECURSIVE Orderings(_)
Orderings(S) ==
  IF S = {} THEN {<<>>}
  ELSE UNION {{<<x>> \o t : t \in Orderings(S \ {x})} : x \in S}

\* IOGatherer::Visit(Special): the direction each tensor is accessed with.
SpecialDir(stmt, r) ==
  IF r \in SeqToSet(stmt.inputs)
  THEN IF r \in SeqToSet(stmt.outputs) THEN UnionDir("In", "Out") ELSE "In"
  ELSE "Out"

RECURSIVE BlockIOs(_, _)
BlockIOs(refs, i) ==
  IF i > Len(refs) THEN <<>>
  ELSE (IF refs[i].dir = "None" THEN <<>> ELSE <<BlockIO(refs[i])>>)
       \o BlockIOs(refs, i + 1)

\* IOGatherer::Gather: the IO vectors Gather can return for a statement.  A
\* Special's vector is built from an unordered_map keyed by RefInfo*, so it
\* comes in any order.
IOGather(stmt) ==
  IF stmt.kind = "load" THEN {<<IO(stmt.from, "In")>>}
  ELSE IF stmt.kind = "store" THEN {<<IO(stmt.into, "Out")>>}
  ELSE IF stmt.kind = "special"
       THEN {Tuple([i \in 1..Len(o) |-> IO(o[i], SpecialDir(stmt, o[i]))]) :
               o \in Orderings(SeqToSet(stmt.inputs) \cup SeqToSet(stmt.outputs))}
  ELSE IF stmt.kind = "block" THEN {BlockIOs(stmt.refs, 1)}
  ELSE {<<>>}

\* The (name slot -> RefInfo) updates the StatementBinder is built with.
RECURSIVE BlockUpdates(_, _)
BlockUpdates(refs, i) ==
  IF i > Len(refs) THEN <<>>
  ELSE (IF refs[i].dir = "None" THEN <<>> ELSE <<refs[i].from>>)
       \o BlockUpdates(refs, i + 1)

BinderUpdates(stmt) ==
  IF stmt.kind = "load" THEN <<stmt.from>>
  ELSE IF stmt.kind = "store" THEN <<stmt.into>>
  ELSE IF stmt.kind = "special" THEN stmt.inputs \o stmt.outputs
  ELSE IF stmt.kind = "block" THEN BlockUpdates(stmt.refs, 1)
  ELSE <<>>

-----------------------------------------------------------------------------
(* Placement, PlacementKey, PlacementPlan *)

\* Placement(dir, size, is_internal, interior_name): no range, no entry yet.
NewPlacement(dir, size, is_internal, interior_name) ==
  [dir |-> dir, size |-> size, range |-> <<0, 0>>, entry |-> 0,
   is_internal |-> is_internal, interior_name |-> interior_name]

\* Placement(dir, range, entry): describes an existing cache entry.
EntryPlacement(dir, range, entry) ==
  [dir |-> dir, size |-> range[2] - range[1], range |-> range, entry |-> entry,
   is_internal |-> FALSE, interior_name |-> ""]

PlacementKey(r, cache_shape, access) ==
  [ri |-> r, cache_shape |-> cache_shape, access |-> access]

\* operator< on vectors of affines (lexicographic).
RECURSIVE AccessLess(_, _)
AccessLess(a, b) ==
  IF b = <<>> THEN FALSE
  ELSE IF a = <<>> THEN TRUE
  ELSE IF Head(a) # Head(b) THEN Head(a) < Head(b)
  ELSE AccessLess(Tail(a), Tail(b))

\* operator<(PlacementKey, PlacementKey): std::tie(ri, cache_shape, access); ri is
\* a pointer, so the RefInfos compare by address.
KeyLess(lhs, rhs) ==
  IF lhs.ri # rhs.ri THEN block.addr[lhs.ri] < block.addr[rhs.ri]
  ELSE IF lhs.cache_shape # rhs.cache_shape THEN lhs.cache_shape < rhs.cache_shape
  ELSE AccessLess(lhs.access, rhs.access)

\* PlacementPlan is a std::map: a sequence of [key, p] in key order.
PlanFind(plan, key) ==
  IF \E i \in 1..Len(plan) : plan[i].key = key
  THEN CHOOSE i \in 1..Len(plan) : plan[i].key = key
  ELSE 0

PlanCount(plan, key) == IF PlanFind(plan, key) = 0 THEN 0 ELSE 1

\* std::map::emplace of a key that is not in the plan.
PlanInsert(plan, key, p) ==
  LET n == Cardinality({i \in 1..Len(plan) : KeyLess(plan[i].key, key)})
  IN SubSeq(plan, 1, n) \o <<[key |-> key, p |-> p]>> \o SubSeq(plan, n + 1, Len(plan))

-----------------------------------------------------------------------------
(* The placement planner.  ri is ri_map_, ents is cache_entries_, act is     *)
(* active_affine_entries_ at the time of the call.                          *)

\* The loop of GatherPlacementState with no existing-entry placements: every
\* IO goes to todo_map.  C25 does not hold of it.
RECURSIVE GatherIOs_NoReuse(_, _, _, _, _, _)
GatherIOs_NoReuse(ios, i, plan, todo_map, ri, ents) ==
  IF i > Len(ios) THEN [plan |-> plan, todo_map |-> todo_map]
  ELSE GatherIOs_NoReuse(ios, i + 1, plan,
                         [todo_map EXCEPT ![ios[i].ri] =
                            IF todo_map[ios[i].ri] = "absent" THEN ios[i].dir
                            ELSE UnionDir(todo_map[ios[i].ri], ios[i].dir)],
                         ri, ents)

\* Scheduler::GatherPlacementState, the loop over the IOs: the plan of the
\* existing entries and todo_map (RefInfo -> direction, "absent" if not in it).
RECURSIVE GatherIOs(_, _, _, _, _, _)
GatherIOs(ios, i, plan, todo_map, ri, ents) ==
  IF i > Len(ios) THEN [plan |-> plan, todo_map |-> todo_map]
  ELSE
    LET io == ios[i]
        pkey == PlacementKey(io.ri, RefSize(io.ri), <<>>)
        k == PlanFind(plan, pkey)
        ce == ri[io.ri].cache_entry
    IN IF k # 0
       THEN GatherIOs(ios, i + 1,
                      [plan EXCEPT ![k].p.dir = UnionDir(plan[k].p.dir, io.dir)],
                      todo_map, ri, ents)
       ELSE IF ce # 0 /\ ~ents[ce].saw_earliest_writer
       THEN GatherIOs(ios, i + 1,
                      PlanInsert(plan, pkey, EntryPlacement(io.dir, ents[ce].range, ce)),
                      todo_map, ri, ents)
       ELSE GatherIOs(ios, i + 1, plan,
                      [todo_map EXCEPT ![io.ri] =
                         IF todo_map[io.ri] = "absent" THEN io.dir
                         ELSE UnionDir(todo_map[io.ri], io.dir)],
                      ri, ents)

\* The std::sort comparator of GatherPlacementState: largest first, the name of
\* the refinement breaking ties.
TodoBefore(lhs, rhs) ==
  \/ RefSize(rhs) < RefSize(lhs)
  \/ RefSize(rhs) = RefSize(lhs) /\ rhs < lhs

RECURSIVE SortTodos(_)
SortTodos(S) ==
  IF S = {} THEN <<>>
  ELSE LET first == CHOOSE x \in S : \A y \in S \ {x} : TodoBefore(x, y)
       IN <<IO(first, "None")>> \o SortTodos(S \ {first})

\* Scheduler::GatherPlacementState: [plan, todos], todos[unit] the IOs to place
\* on that unit.  The todo IOs are rebuilt from (RefInfo, direction) alone.
GatherPlacementState(ios, ri, ents) ==
  LET OfUnit(todo_map, sorted) ==
        Tuple([i \in 1..Len(sorted) |-> IO(sorted[i].ri, todo_map[sorted[i].ri])])
      State(g) ==
        [plan |-> g.plan,
         todos |-> [u \in Units |->
                      OfUnit(g.todo_map,
                             SortTodos({r \in RefIds : g.todo_map[r] # "absent"
                                                       /\ RefUnit(r) = u}))]]
  IN State(GatherIOs(ios, 1, <<>>, [r \in RefIds |-> "absent"], ri, ents))

\* MakeFullPlacements
MakeFullPlacements(ios) ==
  Tuple([i \in 1..Len(ios) |->
           [key |-> PlacementKey(ios[i].ri, RefSize(ios[i].ri), <<>>),
            p |-> NewPlacement(ios[i].dir, RefSize(ios[i].ri), FALSE, "")]])

\* MakePartialPlacements
MakePartialPlacements(ios) ==
  Tuple([i \in 1..Len(ios) |->
           LET interior_size == ios[i].interior_shape
               is_internal == interior_size # RefSize(ios[i].ri)
           IN [key |-> PlacementKey(ios[i].ri, ios[i].interior_shape,
                                    IF is_internal THEN ios[i].access ELSE <<>>),
               p |-> NewPlacement(ios[i].dir, interior_size, is_internal,
                                  ios[i].interior_name)]])

\* The scan of TryPlaceInRanges taking the first range that is large enough.
\* C24 does not hold of it.
BestFit_First(ranges, size, i, best_so_far, best_waste_so_far) ==
  IF \E k \in 1..Len(ranges) : RangeSize(ranges[k]) >= size
  THEN CHOOSE k \in 1..Len(ranges) :
         /\ RangeSize(ranges[k]) >= size
         /\ \A j \in 1..(k - 1) : RangeSize(ranges[j]) < size
  ELSE 0

\* TryPlaceInRanges, the scan for the best range: the index of the best range
\* so far (0 = ranges.end()) after looking at ranges[i..].
RECURSIVE BestFit(_, _, _, _, _)
BestFit(ranges, size, i, best_so_far, best_waste_so_far) ==
  IF i > Len(ranges) THEN best_so_far
  ELSE IF RangeSize(ranges[i]) < size
       THEN BestFit(ranges, size, i + 1, best_so_far, best_waste_so_far)
       ELSE IF best_waste_so_far <= RangeSize(ranges[i]) - size
       THEN BestFit(ranges, size, i + 1, best_so_far, best_waste_so_far)
       ELSE BestFit(ranges, size, i + 1, i, RangeSize(ranges[i]) - size)

\* Scheduler::TryPlaceInRanges: [ok, plan].
RECURSIVE TryPlaceInRanges(_, _, _, _)
TryPlaceInRanges(plan, placements, i, ranges) ==
  IF i > Len(placements) THEN [ok |-> TRUE, plan |-> plan]
  ELSE
    LET key == placements[i].key
        k == PlanFind(plan, key)
        size == placements[i].p.size
        PlaceAt(best, assigned_range) ==
          TryPlaceInRanges(
            PlanInsert(plan, key, [placements[i].p EXCEPT !.range = assigned_range]),
            placements, i + 1,
            SubtractRangeAt(assigned_range, ranges, best))
        PlaceIn(best) ==
          IF best = 0 THEN [ok |-> FALSE, plan |-> plan]
          ELSE PlaceAt(best, <<ranges[best][1], ranges[best][1] + size>>)
    IN IF k = 0
       THEN PlaceIn(BestFit(ranges, size, 1, 0, mem_bytes))
       ELSE TryPlaceInRanges(
              [plan EXCEPT ![k].p.dir = UnionDir(plan[k].p.dir, placements[i].p.dir)],
              placements, i + 1, ranges)

\* The free list of TryMakePlanWithSwaps with no entry taken out of it: the
\* entries the statement uses count as free too.  C35 does not hold of it.
SwapRanges_Whole(entlist, i, ranges, plan, ents) == ranges

\* The free list of TryMakePlanWithSwaps after looking at entlist[i..].
RECURSIVE SwapRanges(_, _, _, _, _)
SwapRanges(entlist, i, ranges, plan, ents) ==
  IF i > Len(entlist) THEN ranges
  ELSE LET ent == ents[entlist[i]]
           pkey == PlacementKey(ent.source, RefSize(ent.source), <<>>)
       IN SwapRanges(entlist, i + 1,
            IF PlanCount(plan, pkey) # 0
            THEN SubtractRange(ent.range, ranges) ELSE ranges,
            plan, ents)

\* The free list of TryMakePlanWithNoSwaps with no entry taken out of it: the
\* whole cache counts as free.  C15 does not hold of it.
NoSwapRanges_Whole(entlist, i, ranges, plan, ents) == ranges

\* The free list of TryMakePlanWithNoSwaps built as TryMakePlanWithSwaps builds
\* it: only the entries the statement uses are kept out of it.  C21 does not
\* hold of it.
NoSwapRanges_AsSwaps(entlist, i, ranges, plan, ents) ==
  SwapRanges(entlist, i, ranges, plan, ents)

\* The free list of TryMakePlanWithNoSwaps after looking at entlist[i..].
RECURSIVE NoSwapRanges(_, _, _, _, _)
NoSwapRanges(entlist, i, ranges, plan, ents) ==
  IF i > Len(entlist) THEN ranges
  ELSE LET ent == ents[entlist[i]]
           pkey == PlacementKey(ent.source, RefSize(ent.source), <<>>)
       IN NoSwapRanges(entlist, i + 1,
            IF ~(ent.saw_earliest_writer /\ PlanCount(plan, pkey) = 0)
            THEN SubtractRange(ent.range, ranges) ELSE ranges,
            plan, ents)

\* Scheduler::TryMakePlanWithNoSwaps, from unit u on (the todos map is walked in
\* the order of its keys).
RECURSIVE NoSwapsFrom(_, _, _, _, _)
NoSwapsFrom(plan, todos, u, ents, act) ==
  IF u \notin Units THEN [ok |-> TRUE, plan |-> plan]
  ELSE IF todos[u] = <<>> THEN NoSwapsFrom(plan, todos, u + 1, ents, act)
  ELSE LET Placed(r) == IF ~r.ok THEN [ok |-> FALSE, plan |-> plan]
                        ELSE NoSwapsFrom(r.plan, todos, u + 1, ents, act)
       IN Placed(TryPlaceInRanges(plan, todos[u], 1,
                   NoSwapRanges(act[u], 1, <<<<0, mem_bytes>>>>, plan, ents)))

TryMakePlanWithNoSwaps(existing_entry_plan, todos, ents, act) ==
  NoSwapsFrom(existing_entry_plan, todos, 0, ents, act)

\* Scheduler::TryMakePlanWithSwaps, from unit u on.
RECURSIVE WithSwapsFrom(_, _, _, _, _)
WithSwapsFrom(plan, todos, u, ents, act) ==
  IF u \notin Units THEN [ok |-> TRUE, plan |-> plan]
  ELSE IF todos[u] = <<>> THEN WithSwapsFrom(plan, todos, u + 1, ents, act)
  ELSE LET Placed(r) == IF ~r.ok THEN [ok |-> FALSE, plan |-> plan]
                        ELSE WithSwapsFrom(r.plan, todos, u + 1, ents, act)
       IN Placed(TryPlaceInRanges(plan, todos[u], 1,
                   SwapRanges(act[u], 1, <<<<0, mem_bytes>>>>, plan, ents)))

TryMakePlanWithSwaps(existing_entry_plan, todos, ents, act) ==
  WithSwapsFrom(existing_entry_plan, todos, 0, ents, act)

\* Scheduler::TryMakeFallbackPlan, the placing loop: [plan, offsets].
RECURSIVE FallbackPlace(_, _, _, _)
FallbackPlace(placements, i, plan, offsets) ==
  IF i > Len(placements) THEN [plan |-> plan, offsets |-> offsets]
  ELSE
    LET key == placements[i].key
        k == PlanFind(plan, key)
        u == RefUnit(key.ri)
        size == placements[i].p.size
    IN IF k = 0
       THEN FallbackPlace(placements, i + 1,
              PlanInsert(plan, key,
                [placements[i].p EXCEPT !.range = <<offsets[u], offsets[u] + size>>]),
              [offsets EXCEPT ![u] = offsets[u] + Align(size, alignment)])
       ELSE FallbackPlace(placements, i + 1,
              [plan EXCEPT ![k].p.dir = UnionDir(plan[k].p.dir, placements[i].p.dir)],
              offsets)

\* TryMakeFallbackPlan without the test of the offsets against mem_bytes.  C1
\* does not hold of it.
TryMakeFallbackPlan_Unchecked(placements) ==
  [ok |-> TRUE, plan |-> FallbackPlace(placements, 1, <<>>, [u \in Units |-> 0]).plan]

\* Scheduler::TryMakeFallbackPlan
TryMakeFallbackPlan(placements) ==
  LET Checked(r) == IF \E u \in Units : mem_bytes < r.offsets[u]
                    THEN [ok |-> FALSE, plan |-> <<>>]
                    ELSE [ok |-> TRUE, plan |-> r.plan]
  IN Checked(FallbackPlace(placements, 1, <<>>, [u \in Units |-> 0]))

\* The todo placements of every unit: todo_fulls and todo_partials.
TodoFulls(todos) == [u \in Units |-> MakeFullPlacements(todos[u])]
TodoPartials(todos) == [u \in Units |-> MakePartialPlacements(todos[u])]

\* The outcome of each of the six strategies of TryMakePlan, in the order it
\* tries them.
Strategy(n, is_block, ios, ri, ents, act) ==
  LET With(existing_entry_plan, todos) ==
        CASE n = 1 -> TryMakePlanWithNoSwaps(existing_entry_plan, TodoFulls(todos), ents, act)
          [] n = 2 -> TryMakePlanWithNoSwaps(existing_entry_plan, TodoPartials(todos), ents, act)
          [] n = 3 -> TryMakePlanWithSwaps(existing_entry_plan, TodoFulls(todos), ents, act)
          [] n = 4 -> TryMakePlanWithSwaps(existing_entry_plan, TodoPartials(todos), ents, act)
          [] n = 5 -> TryMakeFallbackPlan(MakeFullPlacements(ios))
          [] n = 6 -> IF is_block THEN TryMakeFallbackPlan(MakePartialPlacements(ios))
                      ELSE [ok |-> FALSE, plan |-> <<>>]
      From(g) == With(g.plan, g.todos)
  IN From(GatherPlacementState(ios, ri, ents))

\* TryMakePlan with the with-swaps full strategy tried before the others.  C19
\* does not hold of it.
TryStrategies_SwapsFirst(n, is_block, ios, ri, ents, act) ==
  LET good == {k \in n..6 : Strategy(k, is_block, ios, ri, ents, act).ok}
      pick == IF 3 \in good THEN 3 ELSE CHOOSE k \in good : \A j \in good : k <= j
  IN IF good = {} THEN [ok |-> FALSE, plan |-> <<>>, strategy |-> 0]
     ELSE [ok |-> TRUE, plan |-> Strategy(pick, is_block, ios, ri, ents, act).plan,
           strategy |-> pick]

\* Scheduler::TryMakePlan: [ok, plan, strategy]; strategy 0 is boost::none.
RECURSIVE TryStrategies(_, _, _, _, _, _)
TryStrategies(n, is_block, ios, ri, ents, act) ==
  IF n > 6 THEN [ok |-> FALSE, plan |-> <<>>, strategy |-> 0]
  ELSE LET Tried(r) == IF r.ok THEN [ok |-> TRUE, plan |-> r.plan, strategy |-> n]
                       ELSE TryStrategies(n + 1, is_block, ios, ri, ents, act)
       IN Tried(Strategy(n, is_block, ios, ri, ents, act))

\* TryMakePlan without the two fallback strategies.  C4 does not hold of it.
TryMakePlan_NoFallback(is_block, ios, ri, ents, act) ==
  LET Kept(r) == IF r.strategy \in {5, 6} THEN [ok |-> FALSE, plan |-> <<>>, strategy |-> 0]
                 ELSE r
  IN Kept(TryStrategies(1, is_block, ios, ri, ents, act))

TryMakePlan(is_block, ios, ri, ents, act) ==
  TryStrategies(1, is_block, ios, ri, ents, act)

-----------------------------------------------------------------------------
(* Transfer blocks.  The operators below work on a record m of the parts of  *)
(* the scheduler that one loop iteration changes:                           *)
(*   m.order, m.stmts, m.deps, m.ri, m.ents, m.active.                      *)

\* CacheEntry::CacheEntry(pkey_placement); counter is source->next_cache_entry.
CacheEntry(key, placement, counter) ==
  [source |-> key.ri,
   name |-> RefName(key.ri) \o <<Caret, counter>>,
   range |-> placement.range,
   shape |-> key.cache_shape,
   is_internal |-> placement.is_internal,
   interior_name |-> placement.interior_name,
   first_accessor |-> 0,
   writers |-> {},
   readers |-> {},
   saw_earliest_writer |-> FALSE,
   uncovered_ranges |-> <<placement.range>>]

\* A deps.emplace_back that adds nothing.  C26 does not hold of it.
AddDep_None(d, who, dep) == d

\* stmt->deps.emplace_back(dep) for every statement of a set.
AddDep(d, who, dep) ==
  Tuple([x \in 1..Len(d) |-> IF x \in who THEN Append(d[x], dep) ELSE d[x]])

\* ScheduleSwapIn without the loop over ent->readers: no reader gets the swap-in
\* block as a dep.  C8 does not hold of it.
ScheduleSwapIn_NoDeps(m, before, ent, why, at) ==
  LET swap_in == Len(m.stmts) + 1
      src == m.ents[ent].source
  IN [m EXCEPT
        !.order = InsertBefore(@, before, swap_in),
        !.stmts = Append(@, [kind |-> "swap_in", ent |-> ent, backing |-> src,
                             name |-> <<"swap_in_", m.ents[ent].name>>,
                             why |-> why, at |-> at]),
        !.deps = Append(@, <<>>),
        !.ri[src].used = TRUE,
        !.ri[src].swap_in_readers = @ \cup {swap_in},
        !.ents[ent].writers = @ \cup {swap_in},
        !.ents[ent].saw_earliest_writer = TRUE]

\* Scheduler::ScheduleSwapIn(si, ent): the swap-in block gets the next id and is
\* put before `before`.  `why` and `at` record the call that asked for it.
ScheduleSwapIn(m, before, ent, why, at) ==
  LET swap_in == Len(m.stmts) + 1
      src == m.ents[ent].source
  IN [m EXCEPT
        !.order = InsertBefore(@, before, swap_in),
        !.stmts = Append(@, [kind |-> "swap_in", ent |-> ent, backing |-> src,
                             name |-> <<"swap_in_", m.ents[ent].name>>,
                             why |-> why, at |-> at]),
        !.deps = AddDep(Append(@, <<>>), m.ents[ent].readers, swap_in),
        !.ri[src].used = TRUE,
        !.ri[src].swap_in_readers = @ \cup {swap_in},
        !.ents[ent].writers = @ \cup {swap_in},
        !.ents[ent].saw_earliest_writer = TRUE]

\* ScheduleSwapOut without the assignment to saw_final_write.  C16 does not hold
\* of it.
ScheduleSwapOut_NoFlag(m, before, ent, swap_in_readers, at) ==
  LET swap_out == Len(m.stmts) + 1
      src == m.ents[ent].source
  IN [m EXCEPT
        !.order = InsertBefore(@, before, swap_out),
        !.stmts = Append(@, [kind |-> "swap_out", ent |-> ent, backing |-> src,
                             name |-> <<"swap_out_", m.ents[ent].name>>,
                             why |-> "write", at |-> at]),
        !.deps = AddDep(Append(@, <<>>), swap_in_readers, swap_out),
        !.ri[src].used = TRUE]

\* ScheduleSwapOut without the loop over swap_in_readers.  C28 does not hold of
\* it.
ScheduleSwapOut_NoReaders(m, before, ent, swap_in_readers, at) ==
  LET swap_out == Len(m.stmts) + 1
      src == m.ents[ent].source
  IN [m EXCEPT
        !.order = InsertBefore(@, before, swap_out),
        !.stmts = Append(@, [kind |-> "swap_out", ent |-> ent, backing |-> src,
                             name |-> <<"swap_out_", m.ents[ent].name>>,
                             why |-> "write", at |-> at]),
        !.deps = Append(@, <<>>),
        !.ri[src].used = TRUE,
        !.ri[src].saw_final_write = TRUE]

\* Scheduler::ScheduleSwapOut(si, ent, swap_in_readers)
ScheduleSwapOut(m, before, ent, swap_in_readers, at) ==
  LET swap_out == Len(m.stmts) + 1
      src == m.ents[ent].source
  IN [m EXCEPT
        !.order = InsertBefore(@, before, swap_out),
        !.stmts = Append(@, [kind |-> "swap_out", ent |-> ent, backing |-> src,
                             name |-> <<"swap_out_", m.ents[ent].name>>,
                             why |-> "write", at |-> at]),
        !.deps = AddDep(Append(@, <<>>), swap_in_readers, swap_out),
        !.ri[src].used = TRUE,
        !.ri[src].saw_final_write = TRUE]

\* The id of the block ScheduleSwapIn / ScheduleSwapOut has just inserted.
LastInserted(m) == Len(m.stmts)

\* Scheduler::AddSubblockSwapIn: a transfer block at the beginning of the sub-block.
AddSubblockSwapIn(m, blk, ent, backing_ref_name, access) ==
  [m EXCEPT !.stmts[blk].stmts =
     <<[kind |-> "read_slice_of", ent |-> ent, src |-> backing_ref_name,
        dst |-> m.ents[ent].interior_name, access |-> access]>> \o @]

\* Scheduler::AddSubblockSwapOut: a transfer block at the end of the sub-block.
AddSubblockSwapOut(m, blk, ent, backing_ref_name, access) ==
  [m EXCEPT !.stmts[blk].stmts =
     Append(@, [kind |-> "write_slice_of", ent |-> ent, src |-> m.ents[ent].interior_name,
                dst |-> backing_ref_name, access |-> access])]

-----------------------------------------------------------------------------
(* Scheduler::Run, one iteration of the main loop *)

\* Run, lines 725-751: swap-ins for the entries that the writes of the statement
\* invalidate.  st = [m, si_next, w]; w[r] is ri_writer_swap_in_readers[r].
\* Walks alias j of the RefInfo of IO i.
RECURSIVE InvalidateAliases(_, _, _, _, _)
InvalidateAliases(st, ios, i, j, cur) ==
  IF i > Len(ios) THEN st
  ELSE IF ~IsWriteDir(ios[i].dir) THEN InvalidateAliases(st, ios, i + 1, 1, cur)
  ELSE
    LET r == ios[i].ri
        alias_ri == IF j > Len(Aliases(r)) THEN 0 ELSE Aliases(r)[j]
        ce == st.m.ri[alias_ri].cache_entry
        swapped == alias_ri # r /\ ce # 0
        SwapIn(m) == IF swapped
                     THEN [ScheduleSwapIn(m, st.si_next, ce, "alias", cur)
                             EXCEPT !.ri[alias_ri].cache_entry = 0]
                     ELSE m
        Copy(m) == [m |-> m,
                    si_next |-> IF swapped THEN LastInserted(m) ELSE st.si_next,
                    w |-> [st.w EXCEPT ![r] = @ \cup m.ri[alias_ri].swap_in_readers]]
    IN IF alias_ri = 0 THEN InvalidateAliases(st, ios, i + 1, 1, cur)
       ELSE IF alias_ri = r \/ AliasOverlap(r, alias_ri)
       THEN InvalidateAliases(Copy(SwapIn(st.m)), ios, i, j + 1, cur)
       ELSE InvalidateAliases(st, ios, i, j + 1, cur)

\* The walk of lines 938-982 without lines 972-976: an entry a new entry
\* overlaps stays the current entry of its RefInfo.  C38 does not hold of it.
RECURSIVE ResolveConflicts_KeepCurrent(_, _, _, _, _, _, _)
ResolveConflicts_KeepCurrent(m, entlist, i, ent, is_new_entry, reuse_dep, cur) ==
  IF i > Len(entlist) THEN m
  ELSE
    LET future_ent == entlist[i]
        u == RefUnit(m.ents[ent].source)
        src == m.ents[future_ent].source
        SwapIn(m0) ==
          IF ~m0.ents[future_ent].saw_earliest_writer
          THEN ScheduleSwapIn(m0, NextIt(m0.order, reuse_dep), future_ent, "overlap", cur)
          ELSE m0
        Depend(m0) ==
          [m0 EXCEPT !.deps = AddDep(@, m0.ents[future_ent].writers, reuse_dep)]
        Cover(m0, uncovered) ==
          [m0 EXCEPT
             !.ents[future_ent].uncovered_ranges = uncovered,
             !.active[u] = IF uncovered = <<>> THEN RemoveAt(@, Pos(@, future_ent)) ELSE @]
        Subtract(m0) ==
          Cover(m0, SubtractRange(m0.ents[ent].range, m0.ents[future_ent].uncovered_ranges))
    IN IF future_ent = ent
          \/ ~RangesOverlapList(m.ents[ent].range, m.ents[future_ent].uncovered_ranges)
       THEN ResolveConflicts_KeepCurrent(m, entlist, i + 1, ent, is_new_entry, reuse_dep, cur)
       ELSE ResolveConflicts_KeepCurrent(
              Depend(IF is_new_entry THEN Subtract(Depend(SwapIn(m))) ELSE m),
              entlist, i + 1, ent, is_new_entry, reuse_dep, cur)

\* Run, lines 938-982: the walk over the active entries of the unit of `ent`, from
\* position i of the list as it was when the walk began.
RECURSIVE ResolveConflicts(_, _, _, _, _, _, _)
ResolveConflicts(m, entlist, i, ent, is_new_entry, reuse_dep, cur) ==
  IF i > Len(entlist) THEN m
  ELSE
    LET future_ent == entlist[i]
        u == RefUnit(m.ents[ent].source)
        src == m.ents[future_ent].source
        SwapIn(m0) ==
          IF ~m0.ents[future_ent].saw_earliest_writer
          THEN ScheduleSwapIn(m0, NextIt(m0.order, reuse_dep), future_ent, "overlap", cur)
          ELSE m0
        Depend(m0) ==
          [m0 EXCEPT !.deps = AddDep(@, m0.ents[future_ent].writers, reuse_dep)]
        Cover(m0, uncovered) ==
          [m0 EXCEPT
             !.ents[future_ent].uncovered_ranges = uncovered,
             !.active[u] = IF uncovered = <<>> THEN RemoveAt(@, Pos(@, future_ent)) ELSE @,
             !.ri[src].cache_entry = IF @ = future_ent THEN 0 ELSE @]
        Subtract(m0) ==
          Cover(m0, SubtractRange(m0.ents[ent].range, m0.ents[future_ent].uncovered_ranges))
    IN IF future_ent = ent
          \/ ~RangesOverlapList(m.ents[ent].range, m.ents[future_ent].uncovered_ranges)
       THEN ResolveConflicts(m, entlist, i + 1, ent, is_new_entry, reuse_dep, cur)
       ELSE ResolveConflicts(
              Depend(IF is_new_entry THEN Subtract(Depend(SwapIn(m))) ELSE m),
              entlist, i + 1, ent, is_new_entry, reuse_dep, cur)

\* Run, lines 855-890: an internal placement; the sub-block cur gets the backing
\* refinement (once per RefInfo) and its swap blocks.
ApplyInternal(m, cur, ent, key, placement) ==
  LET r == key.ri
      backing_ref_name == <<r, "_storage">>
      AddRef(m0) ==
        IF \E k \in 1..Len(m0.stmts[cur].added_refs) :
              m0.stmts[cur].added_refs[k].into = backing_ref_name
        THEN m0
        ELSE [m0 EXCEPT !.stmts[cur].added_refs =
                Append(@, [dir |-> placement.dir, from |-> r, into |-> backing_ref_name])]
      SwapIn(m0) ==
        IF IsReadDir(placement.dir)
        THEN AddSubblockSwapIn(m0, cur, ent, backing_ref_name, key.access) ELSE m0
      SwapOut(m0) ==
        IF IsWriteDir(placement.dir)
        THEN AddSubblockSwapOut(m0, cur, ent, backing_ref_name, key.access) ELSE m0
  IN SwapOut(SwapIn(AddRef(m)))

\* The external placement with a swap-out only for the readers of swap-ins: the
\* test of the direction of the refinement and of saw_final_write is left out.
\* C10 does not hold of it.
ApplyExternal_NoSwapOut(m, cur, ent, key, placement, w) ==
  LET r == key.ri
      Write(m0) ==
        IF IsWriteDir(placement.dir)
        THEN [m0 EXCEPT
                !.deps = AddDep(@, {x \in m0.ents[ent].readers :
                                      AliasOverlap(r, m0.ents[ent].source)}, cur),
                !.ents[ent].writers = @ \cup {cur},
                !.ents[ent].saw_earliest_writer =
                   IF cur = m0.ri[m0.ents[ent].source].earliest_writer THEN TRUE ELSE @]
        ELSE m0
      Read(m0) ==
        IF IsReadDir(placement.dir)
        THEN [m0 EXCEPT !.ents[ent].readers = @ \cup {cur}] ELSE m0
      Access(m0) == [m0 EXCEPT !.ents[ent].first_accessor = cur]
      DependOnWrite(m0) ==
        [m |-> [m0 EXCEPT !.deps[LastInserted(m0)] = Append(@, cur)],
         reuse_dep |-> LastInserted(m0)]
      SwapOut(m0) ==
        IF IsWriteDir(placement.dir) /\ w[r] # {}
        THEN DependOnWrite(ScheduleSwapOut(m0, NextIt(m0.order, cur), ent, w[r], cur))
        ELSE [m |-> m0, reuse_dep |-> cur]
  IN SwapOut(Access(Read(Write(m))))

\* Run, lines 891-928: an external placement: [m, reuse_dep].
ApplyExternal(m, cur, ent, key, placement, w) ==
  LET r == key.ri
      Write(m0) ==
        IF IsWriteDir(placement.dir)
        THEN [m0 EXCEPT
                !.deps = AddDep(@, {x \in m0.ents[ent].readers :
                                      AliasOverlap(r, m0.ents[ent].source)}, cur),
                !.ents[ent].writers = @ \cup {cur},
                !.ents[ent].saw_earliest_writer =
                   IF cur = m0.ri[m0.ents[ent].source].earliest_writer THEN TRUE ELSE @]
        ELSE m0
      Read(m0) ==
        IF IsReadDir(placement.dir)
        THEN [m0 EXCEPT !.ents[ent].readers = @ \cup {cur}] ELSE m0
      Access(m0) == [m0 EXCEPT !.ents[ent].first_accessor = cur]
      DependOnWrite(m0) ==
        [m |-> [m0 EXCEPT !.deps[LastInserted(m0)] = Append(@, cur)],
         reuse_dep |-> LastInserted(m0)]
      SwapOut(m0) ==
        IF IsWriteDir(placement.dir)
           /\ ((IsWriteDir(block.refs[r].dir) /\ ~m0.ri[r].saw_final_write) \/ w[r] # {})
        THEN DependOnWrite(ScheduleSwapOut(m0, NextIt(m0.order, cur), ent, w[r], cur))
        ELSE [m |-> m0, reuse_dep |-> cur]
  IN SwapOut(Access(Read(Write(m))))

\* Run, lines 835-991: the plan-application loop, from placement k of the plan on.
\* st = [m, added]; added[u] is added_affine_entries[u].
RECURSIVE ApplyPlan(_, _, _, _, _)
ApplyPlan(st, plan, k, cur, w) ==
  IF k > Len(plan) THEN st
  ELSE
    LET key == plan[k].key
        placement == plan[k].p
        r == key.ri
        u == RefUnit(r)
        is_new_entry == placement.entry = 0
        ent == IF is_new_entry THEN Len(st.m.ents) + 1 ELSE placement.entry
        Create(m0) ==
          IF is_new_entry
          THEN [m0 EXCEPT
                  !.ents = Append(@, CacheEntry(key, placement, m0.ri[r].next_cache_entry)),
                  !.ri[r].next_cache_entry = @ + 1,
                  !.ri[r].cache_entry = ent]
          ELSE m0
        Place(m0) ==
          IF placement.is_internal
          THEN [m |-> ApplyInternal(m0, cur, ent, key, placement), reuse_dep |-> cur]
          ELSE ApplyExternal(m0, cur, ent, key, placement, w)
        Resolve(a) ==
          ResolveConflicts(a.m, a.m.active[u], 1, ent, is_new_entry, a.reuse_dep, cur)
        added == IF is_new_entry /\ ~placement.is_internal
                 THEN [st.added EXCEPT ![u] = Append(@, ent)]
                 ELSE st.added
    IN ApplyPlan([m |-> Resolve(Place(Create(st.m))), added |-> added], plan, k + 1, cur, w)

\* A std::list::sort that leaves the list as the splice has made it.  C30 does
\* not hold of it.
SortEntlist_None(entlist, ents) == entlist

\* std::list::sort by range.begin (a stable sort): insert x into a sorted list
\* after every element that does not compare greater.
RECURSIVE SortEntlist(_, _)
SortEntlist(entlist, ents) ==
  IF entlist = <<>> THEN <<>>
  ELSE LET rest == SortEntlist(Tail(entlist), ents)
           x == Head(entlist)
           n == Cardinality({i \in 1..Len(rest) : ents[rest[i]].range[1] < ents[x].range[1]})
       IN SubSeq(rest, 1, n) \o <<x>> \o SubSeq(rest, n + 1, Len(rest))

\* Run, lines 993-998: splice the added entries in front and sort.
SpliceAndSort(m, added) ==
  [m EXCEPT !.active =
     [u \in Units |-> IF added[u] = <<>> THEN m.active[u]
                      ELSE SortEntlist(added[u] \o m.active[u], m.ents)]]

\* The loop of lines 1018-1023 left out: a RefInfo keeps its pointer to an
\* internal entry.  C32 does not hold of it.
ClearInternal_None(m, plan, k) == m

\* Run, lines 1018-1023: drop the RefInfo pointers to internal entries.
RECURSIVE ClearInternal(_, _, _)
ClearInternal(m, plan, k) ==
  IF k > Len(plan) THEN m
  ELSE LET r == plan[k].key.ri
           ce == m.ri[r].cache_entry
       IN ClearInternal(
            IF ce # 0 /\ m.ents[ce].is_internal THEN [m EXCEPT !.ri[r].cache_entry = 0] ELSE m,
            plan, k + 1)

\* ApplyBindings with every name slot rewritten to the first cache entry its
\* RefInfo ever got, whether or not that is the current one.  C17 does not hold
\* of it.
ApplyBindings_First(m, cur) ==
  LET updates == BinderUpdates(m.stmts[cur])
      Of(r) == {e \in 1..Len(m.ents) : m.ents[e].source = r}
  IN Tuple([i \in 1..Len(updates) |->
              CHOOSE e \in Of(updates[i]) : \A f \in Of(updates[i]) : e <= f])

\* StatementBinder::ApplyBindings: the cache entry each name slot of the
\* statement is rewritten to (ri->cache_entry of the slot's RefInfo).
ApplyBindings(m, cur) ==
  LET updates == BinderUpdates(m.stmts[cur])
  IN Tuple([i \in 1..Len(updates) |-> m.ri[updates[i]].cache_entry])

-----------------------------------------------------------------------------
(* The blocks that are scheduled *)

Load(r) == [kind |-> "load", from |-> r]
Store(r) == [kind |-> "store", into |-> r]
Special(ins, outs) == [kind |-> "special", inputs |-> ins, outputs |-> outs]
Constant == [kind |-> "constant"]

\* A refinement of a sub-block: a view of `from`, of interior_shape bytes, at the
\* offset `access`, covering `cells` of the base refinement.
SubRef(dir, from, into, interior_shape, access, cells) ==
  [dir |-> dir, from |-> from, into |-> into, interior_shape |-> interior_shape,
   access |-> access, cells |-> cells]

\* A sub-block: its refinements, its statement list (the body it came with) and
\* the refinements the scheduler adds to it.
Block(name, refs) ==
  [kind |-> "block", name |-> name, refs |-> refs,
   stmts |-> <<[kind |-> "body"]>>, added_refs |-> <<>>]

Ref(dir, size, unit, base, cells) ==
  [dir |-> dir, size |-> size, unit |-> unit, base |-> base, cells |-> cells]

\* proto::SchedulePass as most blocks are scheduled: a cache of 1 KiB and the
\* default alignment.
OptionChoices == {[mem_kib |-> 1, alignment |-> 0]}

\* Three independent refinements on one unit; 256 + 512 + 512 bytes exceed 1 KiB.
Independent ==
  [refs |-> <<Ref("In", 256, 0, 1, {1}), Ref("InOut", 512, 0, 2, {1, 2}),
              Ref("InOut", 512, 0, 3, {1, 2})>>,
   names |-> <<<<1>>, <<2>>, <<3>>>>,
   options |-> OptionChoices,
   alphabet |-> {Load(1), Load(2), Load(3), Store(2), Store(3),
                 Special(<<2>>, <<2>>), Special(<<2, 3>>, <<>>),
                 Special(<<1>>, <<3>>), Special(<<1, 2, 3>>, <<>>), Constant}]

\* Refinement 1 is larger than the cache and only its slices fit; refinement 2
\* is a view of the first two cells of the same base refinement.  Block "x"
\* needs 1024 + 256 bytes at once.
Sliced ==
  [refs |-> <<Ref("InOut", 1280, 0, 1, {1, 2, 3, 4, 5}), Ref("In", 512, 0, 1, {1, 2}),
              Ref("In", 256, 0, 3, {1})>>,
   names |-> <<<<1>>, <<2>>, <<3>>>>,
   options |-> OptionChoices,
   alphabet |-> {Load(2), Load(3),
                 Block("w", <<SubRef("Out", 1, "o", 256, <<0>>, {1})>>),
                 Block("rw", <<SubRef("InOut", 1, "a", 256, <<4>>, {5}),
                               SubRef("In", 3, "c", 256, <<0>>, {1})>>),
                 Block("r", <<SubRef("In", 1, "a", 512, <<2>>, {3, 4}),
                              SubRef("None", 3, "t", 256, <<0>>, {1})>>),
                 Block("b", <<SubRef("In", 2, "b", 256, <<1>>, {2})>>),
                 Block("x", <<SubRef("In", 1, "a", 1024, <<0>>, {1, 2, 3, 4}),
                              SubRef("In", 3, "c", 256, <<0>>, {1})>>)}]

\* Refinements 1 and 2 overlap in the base refinement; everything fits.
Aliased ==
  [refs |-> <<Ref("InOut", 512, 0, 1, {1, 2}), Ref("In", 512, 0, 1, {2, 3}),
              Ref("In", 512, 0, 3, {1, 2})>>,
   names |-> <<<<1>>, <<2>>, <<3>>>>,
   options |-> OptionChoices,
   alphabet |-> {Load(1), Load(2), Load(3), Store(1), Special(<<1>>, <<1>>),
                 Special(<<2>>, <<1>>), Special(<<2, 3>>, <<>>)}]

\* Two units; each of the first two refinements fills the cache of its unit.
TwoUnits ==
  [refs |-> <<Ref("In", 1024, 0, 1, {1}), Ref("InOut", 1024, 1, 2, {1}),
              Ref("In", 512, 0, 3, {1})>>,
   names |-> <<<<1>>, <<2>>, <<3>>>>,
   options |-> OptionChoices,
   alphabet |-> {Load(1), Load(2), Load(3), Store(2), Special(<<1, 2>>, <<>>),
                 Special(<<1, 3>>, <<>>), Special(<<3>>, <<2>>)}]

\* The second refinement has the name the first cache entry of the first one
\* gets: "A" and "A^0".
Named ==
  [refs |-> <<Ref("In", 256, 0, 1, {1}), Ref("InOut", 256, 0, 2, {1}),
              Ref("In", 256, 0, 3, {1})>>,
   names |-> <<<<1>>, <<1, Caret, 0>>, <<3>>>>,
   options |-> OptionChoices,
   alphabet |-> {Load(1), Load(2), Store(2)}]

\* Sizes that are no multiple of the alignment.  A statement that needs the
\* first two refinements needs 254 + 766 bytes; the block is scheduled with the
\* default alignment and with an alignment of 512 bytes.
Unaligned ==
  [refs |-> <<Ref("In", 254, 0, 1, {1}), Ref("In", 766, 0, 2, {1}),
              Ref("In", 256, 0, 3, {1})>>,
   names |-> <<<<1>>, <<2>>, <<3>>>>,
   options |-> {[mem_kib |-> 1, alignment |-> 0], [mem_kib |-> 1, alignment |-> 512]},
   alphabet |-> {Special(<<1, 2>>, <<>>), Special(<<3, 1>>, <<>>), Load(2), Load(3)}]

\* As Unaligned, the second refinement four bytes larger: 254 + 770 bytes are
\* the whole cache.
Padded ==
  [refs |-> <<Ref("In", 254, 0, 1, {1}), Ref("In", 770, 0, 2, {1}),
              Ref("In", 256, 0, 3, {1})>>,
   names |-> <<<<1>>, <<2>>, <<3>>>>,
   options |-> OptionChoices,
   alphabet |-> {Special(<<1, 2>>, <<>>), Special(<<3, 1>>, <<>>), Load(2)}]

\* Sizes that leave free ranges of different and of equal sizes on both sides
\* of an entry: 384 + 256 + 384 and 384 + 320 + 320 bytes are the whole cache.
Holes ==
  [refs |-> <<Ref("InOut", 384, 0, 1, {1}), Ref("In", 256, 0, 2, {1}),
              Ref("In", 320, 0, 3, {1})>>,
   names |-> <<<<1>>, <<2>>, <<3>>>>,
   options |-> OptionChoices,
   alphabet |-> {Special(<<1, 2>>, <<>>), Special(<<1, 3>>, <<>>), Special(<<2, 3>>, <<>>),
                 Store(1)}]

Tables == {Independent, Sliced, Aliased, TwoUnits, Named, Unaligned, Padded, Holes}

\* The address order of the RefInfos (the nodes of ri_map_).
AddrOrders == {<<1, 2, 3>>, <<3, 2, 1>>, <<2, 3, 1>>}

Programs(alphabet) == UNION {[1..n -> alphabet] : n \in 1..MaxStmts}

\* The refinement list a block comes with: one refinement per RefInfo.
OriginalRefs(refs, names) ==
  Tuple([r \in 1..Len(refs) |-> [into |-> names[r], dir |-> refs[r].dir, from |-> names[r],
                                  offset |-> 0, interior_shape |-> refs[r].size]])

-----------------------------------------------------------------------------
(* Scheduler::Schedule: construction *)

\* No exception has been thrown.
NoError == [type |-> "none", message |-> "", names |-> {}]

Init ==
  \E t \in Tables, a \in AddrOrders :
    \E prog \in Programs(t.alphabet), o \in t.options :
      /\ options = o
      /\ block = [refs |-> t.refs, names |-> t.names, addr |-> a, stmts |-> prog]
      /\ pc = "loop"
      /\ si = 0
      /\ order = Tuple([i \in 1..Len(prog) |-> i])
      /\ stmts = prog
      /\ deps = Tuple([i \in 1..Len(prog) |-> <<>>])
      /\ bound = Tuple([i \in 1..Len(prog) |-> <<>>])
      /\ ri_map = BuildRefInfoMap([stmts |-> prog])
      /\ cache_entries = <<>>
      /\ active = [u \in Units |-> <<>>]
      /\ block_refs = OriginalRefs(t.refs, t.names)
      /\ error = NoError
      /\ log = <<>>
      /\ plans = Tuple([i \in 1..Len(prog) |-> 0])

-----------------------------------------------------------------------------
(* Scheduler::Run *)

\* The parts of the scheduler a loop iteration works on.
Working ==
  [order |-> order, stmts |-> stmts, deps |-> deps,
   ri |-> ri_map, ents |-> cache_entries, active |-> active]

\* Run, lines 707-751: the statement to schedule and the state after the
\* swap-ins for the entries its writes invalidate.
Current == PrevIt(order, si)

Invalidated(ios) ==
  InvalidateAliases([m |-> Working, si_next |-> si, w |-> [r \in RefIds |-> {}]],
                    ios, 1, 1, Current)

IsBlock(stmt) == stmt.kind = "block"

\* Run, lines 769-1023: the rest of the loop body once a plan has been made.
Scheduled(st, plan, cur) ==
  LET Bound(spliced) ==
        [m |-> ClearInternal(spliced, plan, 1), binding |-> ApplyBindings(spliced, cur)]
      Spliced(applied) == Bound(SpliceAndSort(applied.m, applied.added))
  IN Spliced(ApplyPlan([m |-> st.m, added |-> [u \in Units |-> <<>>]], plan, 1, cur, st.w))

\* One iteration of the main loop, the plan made.
ScheduleStatement ==
  /\ pc = "loop"
  /\ \E ios \in IOGather(stmts[Current]) :
       \E st \in {Invalidated(ios)} :
         \E tp \in {TryMakePlan(IsBlock(stmts[Current]), ios, st.m.ri, st.m.ents, st.m.active)} :
           /\ tp.ok
           /\ \E done \in {Scheduled(st, tp.plan, Current)} :
                /\ order' = done.m.order
                /\ stmts' = done.m.stmts
                /\ deps' = done.m.deps
                /\ ri_map' = done.m.ri
                /\ cache_entries' = done.m.ents
                /\ active' = done.m.active
                /\ bound' = [bound EXCEPT ![Current] = done.binding]
                /\ plans' = [plans EXCEPT ![Current] = tp.strategy]
                /\ si' = Current
                /\ pc' = IF done.m.order[1] = Current THEN "final" ELSE "loop"
  /\ UNCHANGED <<options, block, block_refs, error, log>>

\* The exception Run throws: the message alone (it names nothing).
ResourceExhaustedError ==
  [type |-> "ResourceExhausted", message |-> "Program requires more memory than is available",
   names |-> {}]

\* The warnings without the loop over the IOs: the header lines alone.  C5 does
\* not hold of it.
Warnings_Header(stmt, ios) ==
  <<[line |-> "Failed to create placement plan fitting within", kib |-> mem_bytes \div KiB],
    IF IsBlock(stmt) THEN [line |-> "Block simultaneously requires:", name |-> stmt.name]
    ELSE [line |-> "The program simultaneously requires:"]>>

\* The warnings Run logs before it throws, one record a line.
Warnings(stmt, ios) ==
  <<[line |-> "Failed to create placement plan fitting within", kib |-> mem_bytes \div KiB],
    IF IsBlock(stmt) THEN [line |-> "Block simultaneously requires:", name |-> stmt.name]
    ELSE [line |-> "The program simultaneously requires:"]>>
  \o Tuple([i \in 1..Len(ios) |-> [line |-> "ref", ref |-> ios[i].ri]])

\* One iteration of the main loop, no plan made: Run throws ResourceExhausted.
\* The swap-ins of lines 725-751 have been inserted by then.
RaiseResourceExhausted ==
  /\ pc = "loop"
  /\ \E ios \in IOGather(stmts[Current]) :
       \E st \in {Invalidated(ios)} :
         /\ ~TryMakePlan(IsBlock(stmts[Current]), ios, st.m.ri, st.m.ents, st.m.active).ok
         /\ order' = st.m.order
         /\ stmts' = st.m.stmts
         /\ deps' = st.m.deps
         /\ ri_map' = st.m.ri
         /\ cache_entries' = st.m.ents
         /\ active' = st.m.active
         /\ log' = log \o Warnings(stmts[Current], ios)
         /\ error' = ResourceExhaustedError
         /\ si' = Current
         /\ pc' = "exhausted"
  /\ UNCHANGED <<options, block, block_refs, bound, plans>>

-----------------------------------------------------------------------------
(* Scheduler::Run, after the loop *)

\* The loop of lines 1040-1047 with the swap-in put after the first accessor
\* of the entry, not before it.  C6 does not hold of it.
RECURSIVE FinalSwapInsFrom_AfterAccessor(_, _, _)
FinalSwapInsFrom_AfterAccessor(m, u, i) ==
  IF u \notin Units THEN m
  ELSE IF i > Len(m.active[u]) THEN FinalSwapInsFrom_AfterAccessor(m, u + 1, 1)
  ELSE LET ent == m.active[u][i]
       IN FinalSwapInsFrom_AfterAccessor(
            IF m.ri[m.ents[ent].source].earliest_writer = 0
            THEN ScheduleSwapIn(m, NextIt(m.order, m.ents[ent].first_accessor), ent,
                                "final", m.ents[ent].first_accessor)
            ELSE m,
            u, i + 1)

\* Run, lines 1040-1047: a swap-in, just before its first accessor, for every
\* active entry whose refinement no statement of the block writes.  Walks entry
\* i of the active list of unit u.
RECURSIVE FinalSwapInsFrom(_, _, _)
FinalSwapInsFrom(m, u, i) ==
  IF u \notin Units THEN m
  ELSE IF i > Len(m.active[u]) THEN FinalSwapInsFrom(m, u + 1, 1)
  ELSE LET ent == m.active[u][i]
       IN FinalSwapInsFrom(
            IF m.ri[m.ents[ent].source].earliest_writer = 0
            THEN ScheduleSwapIn(m, m.ents[ent].first_accessor, ent, "final",
                                m.ents[ent].first_accessor)
            ELSE m,
            u, i + 1)

\* Run, lines 1049-1066: the refinement of a cache entry.
EntryRef(ent) ==
  [into |-> ent.name, dir |-> "None", from |-> <<>>,
   offset |-> ent.range[1], interior_shape |-> ent.shape]

\* The loop of lines 1049-1066 left out: the cache entries get no refinement.
\* C14 does not hold of it.
AddEntryRefs_None(refs, ents, i) == refs

\* Run, lines 1049-1066: a refinement for each cache entry, appended unless the
\* block already has one of that name.
RECURSIVE AddEntryRefs(_, _, _)
AddEntryRefs(refs, ents, i) ==
  IF i > Len(ents) THEN refs
  ELSE LET have == {k \in 1..Len(refs) : refs[k].into = ents[i].name}
       IN AddEntryRefs(
            IF have = {} THEN Append(refs, EntryRef(ents[i]))
            ELSE [refs EXCEPT ![CHOOSE k \in have : \A j \in have : k <= j] = EntryRef(ents[i])],
            ents, i + 1)

\* Run, lines 1068-1078: the refinement of every used RefInfo is put back.
RECURSIVE MoveUsedRefs(_, _, _)
MoveUsedRefs(refs, ri, r) ==
  IF r \notin RefIds THEN refs
  ELSE LET orig == OriginalRefs(block.refs, block.names)[r]
           have == {k \in 1..Len(refs) : refs[k].into = orig.into}
       IN MoveUsedRefs(
            IF ~ri[r].used THEN refs
            ELSE IF have = {} THEN Append(refs, orig)
            ELSE [refs EXCEPT ![CHOOSE k \in have : \A j \in have : k <= j] = orig],
            ri, r + 1)

\* Run, lines 1026-1078.
FinalSwapIns ==
  /\ pc = "final"
  /\ \E m \in {FinalSwapInsFrom(Working, 0, 1)} :
        /\ order' = m.order
        /\ stmts' = m.stmts
        /\ deps' = m.deps
        /\ ri_map' = m.ri
        /\ cache_entries' = m.ents
        /\ active' = m.active
        /\ block_refs' = MoveUsedRefs(AddEntryRefs(block_refs, m.ents, 1), m.ri, 1)
  /\ pc' = "tdeps"
  /\ UNCHANGED <<options, block, si, bound, error, log, plans>>

\* std::less on the `into` names, character by character: "A" < "A^0" < "A^1" < "B".
RECURSIVE NameLess(_, _)
NameLess(a, b) ==
  IF b = <<>> THEN FALSE
  ELSE IF a = <<>> THEN TRUE
  ELSE IF Head(a) # Head(b) THEN Head(a) < Head(b)
  ELSE NameLess(Tail(a), Tail(b))

\* Run, lines 1085-1087: std::sort of the refinements by `into`.
RECURSIVE SortRefs(_)
SortRefs(refs) ==
  IF refs = <<>> THEN <<>>
  ELSE LET rest == SortRefs(Tail(refs))
           x == Head(refs)
           n == Cardinality({i \in 1..Len(rest) : NameLess(rest[i].into, x.into)})
       IN SubSeq(rest, 1, n) \o <<x>> \o SubSeq(rest, n + 1, Len(rest))

\* The deps cleared at line 1617 and nothing written back.  C39 does not hold
\* of it.
NewDeps_None(stmt_deps, stmt_tdeps) == {{}}

\* RebuildTransitiveDeps, line 1618: std::set_difference over stmt_deps and
\* stmt_tdeps.  Both are unordered sets of iterators, so the library gets two
\* ranges in hash order (it expects sorted ranges) and compares their elements
\* by address.  It writes an element of stmt_deps unless it meets the same
\* element at the front of the other range.  Over all hash orders and address
\* orders the results are: every element that is not in stmt_tdeps, and any of
\* the others, except that not all can stay when the two sets are equal.  A
\* statement's new deps are kept as the set of them.
NewDeps(stmt_deps, stmt_tdeps) ==
  {(stmt_deps \ stmt_tdeps) \cup kept : kept \in
     {k \in SUBSET (stmt_deps \cap stmt_tdeps) :
        ~(stmt_deps = stmt_tdeps /\ stmt_deps # {} /\ k = stmt_deps)}}

\* The vector a set of deps is written back as (in the order of the ids).
RECURSIVE SetToSeq(_)
SetToSeq(S) ==
  IF S = {} THEN <<>>
  ELSE LET x == CHOOSE y \in S : \A z \in S : y <= z
       IN <<x>> \o SetToSeq(S \ {x})

\* RebuildTransitiveDeps, lines 1610-1622: the map tdeps after the statements
\* list[1..i] have been visited, as [keys, of].  tdeps[dep] makes an empty
\* element for a dep that has none yet, and the emplace that ends a visit
\* leaves an element that is there alone.
RECURSIVE TDepsUpTo(_, _, _)
TDepsUpTo(list, d, i) ==
  IF i = 0 THEN [keys |-> {}, of |-> Tuple([x \in 1..Len(d) |-> {}])]
  ELSE LET x == list[i]
           stmt_deps == SeqToSet(d[x])
           Visit(before) ==
             [keys |-> before.keys \cup stmt_deps \cup {x},
              of |-> IF x \in before.keys \cup stmt_deps THEN before.of
                     ELSE [before.of EXCEPT ![x] =
                             stmt_deps \cup UNION {before.of[dep] : dep \in stmt_deps}]]
       IN Visit(TDepsUpTo(list, d, i - 1))

\* The deps each statement can be left with: a function id -> set of sets.
CleanupChoices(list, d) ==
  LET Choices(tdeps) ==
        [x \in 1..Len(d) |->
           NewDeps(SeqToSet(d[x]), UNION {tdeps[dep] : dep \in SeqToSet(d[x])})]
  IN Choices(TDepsUpTo(list, d, Len(list)).of)

\* Every way to pick one outcome for each of the statements x..n.
RECURSIVE CleanupsFrom(_, _)
CleanupsFrom(choices, x) ==
  IF x > Len(choices) THEN {<<>>}
  ELSE {<<SetToSeq(c)>> \o rest : c \in choices[x], rest \in CleanupsFrom(choices, x + 1)}

\* Scheduler::RebuildTransitiveDeps and the sort of the refinements that ends Run.
RebuildTransitiveDeps ==
  /\ pc = "tdeps"
  /\ deps' \in CleanupsFrom(CleanupChoices(order, deps), 1)
  /\ block_refs' = SortRefs(block_refs)
  /\ pc' = "done"
  /\ UNCHANGED <<options, block, si, order, stmts, bound, ri_map, cache_entries,
                 active, error, log, plans>>

Next ==
  \/ ScheduleStatement
  \/ RaiseResourceExhausted
  \/ FinalSwapIns
  \/ RebuildTransitiveDeps

Spec == Init /\ [][Next]_vars

-----------------------------------------------------------------------------
(* Running a block.  Backing memory holds a value for every cell of every    *)
(* base refinement; a cache entry holds an image, a value for every cell of  *)
(* what it caches.  A value is a sequence of integers: <<0, base, cell>> is  *)
(* what a cell holds before the block runs, <<s, cell, ...>> what statement  *)
(* s writes (followed by the values it read), Garbage what memory holds that *)
(* nothing has put a value in.                                               *)

Cells == 1..5

Garbage == <<-1>>

CellsOf(r) == block.refs[r].cells

BaseOf(r) == block.refs[r].base

InitialBacking == [b \in RefIds |-> [c \in Cells |-> <<0, b, c>>]]

\* The accesses of a sub-block's refinements, one per name slot of the binder.
RECURSIVE BlockAccesses(_, _)
BlockAccesses(refs, i) ==
  IF i > Len(refs) THEN <<>>
  ELSE (IF refs[i].dir = "None" THEN <<>>
        ELSE <<[ri |-> refs[i].from, dir |-> refs[i].dir, cells |-> refs[i].cells]>>)
       \o BlockAccesses(refs, i + 1)

\* What a statement reads and writes, one access per name slot of its binder.
Accesses(stmt) ==
  IF stmt.kind = "load"
  THEN <<[ri |-> stmt.from, dir |-> "In", cells |-> CellsOf(stmt.from)]>>
  ELSE IF stmt.kind = "store"
  THEN <<[ri |-> stmt.into, dir |-> "Out", cells |-> CellsOf(stmt.into)]>>
  ELSE IF stmt.kind = "special"
  THEN [k \in 1..(Len(stmt.inputs) + Len(stmt.outputs)) |->
          IF k <= Len(stmt.inputs)
          THEN [ri |-> stmt.inputs[k], dir |-> "In", cells |-> CellsOf(stmt.inputs[k])]
          ELSE [ri |-> stmt.outputs[k - Len(stmt.inputs)], dir |-> "Out",
                cells |-> CellsOf(stmt.outputs[k - Len(stmt.inputs)])]]
  ELSE IF stmt.kind = "block" THEN BlockAccesses(stmt.refs, 1)
  ELSE <<>>

\* What the accesses read, given the memory views[k] that slot k looks at.
ReadsOf(acc, views) ==
  Tuple([k \in 1..Len(acc) |->
           [c \in (IF IsReadDir(acc[k].dir) THEN acc[k].cells ELSE {}) |-> views[k][c]]])

\* The values of a read, cell by cell, as one sequence.
RECURSIVE CellValues(_, _)
CellValues(f, cells) ==
  IF cells = {} THEN <<>>
  ELSE LET c == CHOOSE x \in cells : \A y \in cells : x <= y
       IN f[c] \o <<-2>> \o CellValues(f, cells \ {c})

\* Everything a statement read, as one sequence.
RECURSIVE Digest(_, _)
Digest(reads, k) ==
  IF k > Len(reads) THEN <<>>
  ELSE CellValues(reads[k], DOMAIN reads[k]) \o <<-3>> \o Digest(reads, k + 1)

\* The value statement s writes into a cell.
Written(s, c, digest) == <<s, c>> \o digest

\* The unscheduled block: the writes of statement s, from slot k on, to backing
\* memory.
RECURSIVE WriteBacking(_, _, _, _, _)
WriteBacking(backing, acc, k, s, digest) ==
  IF k > Len(acc) THEN backing
  ELSE WriteBacking(
         IF IsWriteDir(acc[k].dir)
         THEN [backing EXCEPT ![BaseOf(acc[k].ri)] =
                 [c \in Cells |-> IF c \in acc[k].cells THEN Written(s, c, digest) ELSE @[c]]]
         ELSE backing,
         acc, k + 1, s, digest)

\* The unscheduled block run in order on backing memory, from statement i on:
\* [backing, reads], reads[s] what statement s read.
RECURSIVE RunOriginal(_, _, _)
RunOriginal(prog, i, x) ==
  IF i > Len(prog) THEN x
  ELSE LET acc == Accesses(prog[i])
           Step(reads) ==
             [backing |-> WriteBacking(x.backing, acc, 1, i, Digest(reads, 1)),
              reads |-> [x.reads EXCEPT ![i] = reads]]
       IN RunOriginal(prog, i + 1,
            Step(ReadsOf(acc, [k \in 1..Len(acc) |-> x.backing[BaseOf(acc[k].ri)]])))

OriginalRun ==
  RunOriginal(block.stmts, 1,
              [backing |-> InitialBacking, reads |-> Tuple([i \in 1..Len(block.stmts) |-> <<>>])])

\* Putting an image into the range of entry e overwrites what the entries that
\* share bytes with it held.
SetImage(image, e, f) ==
  Tuple([g \in 1..Len(image) |->
           IF g = e THEN f
           ELSE IF RefUnit(cache_entries[g].source) = RefUnit(cache_entries[e].source)
                   /\ RangesOverlap(cache_entries[g].range, cache_entries[e].range)
                THEN [c \in Cells |-> Garbage]
                ELSE image[g]])

\* A swap-in block: backing memory of the source refinement -> the entry.
RunSwapIn(x, stmt) ==
  [x EXCEPT !.image =
     SetImage(@, stmt.ent,
              [c \in Cells |-> IF c \in CellsOf(stmt.backing)
                               THEN x.backing[BaseOf(stmt.backing)][c] ELSE Garbage])]

\* A swap-out block: the entry -> backing memory of the source refinement.
RunSwapOut(x, stmt) ==
  [x EXCEPT !.backing[BaseOf(stmt.backing)] =
     [c \in Cells |-> IF c \in CellsOf(stmt.backing) THEN x.image[stmt.ent][c] ELSE @[c]]]

\* The writes of the scheduled statement s, from slot k on, to the entries its
\* names are bound to.
RECURSIVE WriteImages(_, _, _, _, _)
WriteImages(image, acc, k, s, digest) ==
  IF k > Len(acc) THEN image
  ELSE WriteImages(
         IF IsWriteDir(acc[k].dir) /\ bound[s][k] # 0
         THEN SetImage(image, bound[s][k],
                [c \in Cells |-> IF c \in acc[k].cells THEN Written(s, c, digest)
                                 ELSE image[bound[s][k]][c]])
         ELSE image,
         acc, k + 1, s, digest)

\* The body of the scheduled statement s: it reads and writes the entries its
\* names are bound to.
RunBody(x, s) ==
  LET acc == Accesses(block.stmts[s])
      Step(reads) ==
        [x EXCEPT !.image = WriteImages(@, acc, 1, s, Digest(reads, 1)),
                  !.reads[s] = reads]
  IN Step(ReadsOf(acc, [k \in 1..Len(acc) |->
                          IF bound[s][k] = 0 THEN [c \in Cells |-> Garbage]
                          ELSE x.image[bound[s][k]]]))

\* The cells of the slice an internal entry of sub-block s holds.
SliceOf(s, ent) ==
  UNION {Accesses(block.stmts[s])[k].cells :
           k \in {j \in 1..Len(bound[s]) : bound[s][j] = ent}}

\* The statement list of the scheduled sub-block s, from its statement j on:
\* the transfer blocks put around its body.
RECURSIVE RunInner(_, _, _)
RunInner(x, s, j) ==
  IF j > Len(stmts[s].stmts) THEN x
  ELSE LET inner == stmts[s].stmts[j]
           base == BaseOf(cache_entries[inner.ent].source)
       IN RunInner(
            IF inner.kind = "body" THEN RunBody(x, s)
            ELSE IF inner.kind = "read_slice_of"
            THEN [x EXCEPT !.image =
                    SetImage(@, inner.ent,
                      [c \in Cells |-> IF c \in SliceOf(s, inner.ent)
                                       THEN x.backing[base][c] ELSE Garbage])]
            ELSE [x EXCEPT !.backing[base] =
                    [c \in Cells |-> IF c \in SliceOf(s, inner.ent)
                                     THEN x.image[inner.ent][c] ELSE @[c]]],
            s, j + 1)

\* The scheduled statement list run in list order, from position i on:
\* [backing, image, reads].
RECURSIVE RunScheduled(_, _)
RunScheduled(i, x) ==
  IF i > Len(order) THEN x
  ELSE LET s == order[i]
       IN RunScheduled(i + 1,
            IF stmts[s].kind = "swap_in" THEN RunSwapIn(x, stmts[s])
            ELSE IF stmts[s].kind = "swap_out" THEN RunSwapOut(x, stmts[s])
            ELSE IF stmts[s].kind = "block" THEN RunInner(x, s, 1)
            ELSE RunBody(x, s))

ScheduledRun ==
  RunScheduled(1,
    [backing |-> InitialBacking,
     image |-> Tuple([e \in 1..Len(cache_entries) |-> [c \in Cells |-> Garbage]]),
     reads |-> Tuple([i \in 1..Len(block.stmts) |-> <<>>])])

-----------------------------------------------------------------------------
(* Reading the scheduled block *)

\* list position: a comes before b.
Before(list, a, b) == Pos(list, a) < Pos(list, b)

\* The statements reached from the set S along deps.
RECURSIVE Reach(_, _)
Reach(d, S) ==
  LET Grown(N) == IF N = S THEN S ELSE Reach(d, N)
  IN Grown(S \cup UNION {SeqToSet(d[y]) : y \in S})

\* x depends on y, directly or through other statements.
DependsOn(d, x, y) == y \in Reach(d, SeqToSet(d[x]))

\* The entries in the active index.
ActiveEntries == UNION {SeqToSet(active[u]) : u \in Units}

\* The transfer blocks of the list.
SwapIns == {x \in SeqToSet(order) : stmts[x].kind = "swap_in"}
SwapOuts == {x \in SeqToSet(order) : stmts[x].kind = "swap_out"}

\* The original statements, by id.
Originals == 1..Len(block.stmts)

-----------------------------------------------------------------------------
(* C1 *)

\* C1: every cache entry, whichever strategy placed it, lies within the cache:
\* 0 <= range.begin <= range.end <= mem_bytes.
C1_EntriesWithinMemory ==
  \A e \in 1..Len(cache_entries) :
    /\ 0 <= cache_entries[e].range[1]
    /\ cache_entries[e].range[1] <= cache_entries[e].range[2]
    /\ cache_entries[e].range[2] <= mem_bytes

\* An entry placed by a fallback plan ends at the last byte of the cache, and
\* another statement got its entries from a plan that looked for free ranges.
C1_Witness ==
  /\ \E e \in 1..Len(cache_entries) : cache_entries[e].range[2] = mem_bytes
  /\ \E s \in Originals : plans[s] \in {5, 6}
  /\ \E s \in Originals : plans[s] \in {1, 3}

-----------------------------------------------------------------------------
(* C2 *)

\* C2: at every statement boundary, two distinct entries in the active index of
\* one unit share no byte of their uncovered ranges.
C2_UncoveredDisjoint ==
  \A u \in Units : \A i, j \in 1..Len(active[u]) :
    i # j =>
      /\ active[u][i] # active[u][j]
      /\ \A a \in 1..Len(cache_entries[active[u][i]].uncovered_ranges) :
           ~RangesOverlapList(cache_entries[active[u][i]].uncovered_ranges[a],
                              cache_entries[active[u][j]].uncovered_ranges)

\* Two active entries of one unit whose ranges share bytes: only what is left
\* uncovered of the later one keeps them apart.
C2_Witness ==
  \E u \in Units : \E i, j \in 1..Len(active[u]) :
    /\ i # j
    /\ RangesOverlap(cache_entries[active[u][i]].range, cache_entries[active[u][j]].range)
    /\ cache_entries[active[u][j]].uncovered_ranges # <<cache_entries[active[u][j]].range>>

-----------------------------------------------------------------------------
(* C3 *)

\* C3: run in list order, the scheduled block makes every original statement
\* read what it reads in the unscheduled block, and leaves the backing memory
\* of every Out/InOut refinement as the unscheduled block leaves it.
C3_SameValues ==
  pc = "done" =>
    /\ \A s \in Originals : ScheduledRun.reads[s] = OriginalRun.reads[s]
    /\ \A r \in RefIds : IsWriteDir(block.refs[r].dir) =>
         \A c \in CellsOf(r) :
           ScheduledRun.backing[BaseOf(r)][c] = OriginalRun.backing[BaseOf(r)][c]

-----------------------------------------------------------------------------
(* C4 *)

\* The failure of every planning strategy for the statement about to be
\* scheduled, whatever order its IOs are gathered in.
EveryStrategyFails ==
  \A ios \in IOGather(stmts[Current]) : \A st \in {Invalidated(ios)} : \A n \in 1..6 :
    ~Strategy(n, IsBlock(stmts[Current]), ios, st.m.ri, st.m.ents, st.m.active).ok

\* C4: scheduling statement S raises ResourceExhausted if and only if every
\* applicable strategy fails; if any succeeds, S is scheduled without error.
C4_ExhaustedIffAllFail ==
  [][pc = "loop" =>
       /\ (pc' = "exhausted") <=> EveryStrategyFails
       /\ (pc' = "exhausted") <=> (error' = ResourceExhaustedError)
       /\ (pc' # "exhausted") => (error' = NoError /\ plans'[Current] \in 1..6)]_vars

\* The pass has failed on one statement after it scheduled another by a
\* fallback plan.
C4_Witness ==
  /\ pc = "exhausted"
  /\ error.type = "ResourceExhausted"
  /\ \E s \in Originals : plans[s] \in {5, 6}

-----------------------------------------------------------------------------
(* C5 *)

\* The refinements the statement the pass failed on requires at once.
Required == BufferReads(stmts[si]) \cup BufferWrites(stmts[si])

-----------------------------------------------------------------------------
(* C6 *)

\* C6: at the end of the pass, every entry in the active index whose refinement
\* no statement writes has a swap-in block in the list before its first
\* accessor, and every reader of the entry depends on that swap-in.
C6_FinalSwapIns ==
  pc \in {"tdeps", "done"} =>
    \A e \in ActiveEntries :
      ri_map[cache_entries[e].source].earliest_writer = 0 =>
        \E x \in SwapIns :
          /\ stmts[x].ent = e
          /\ Before(order, x, cache_entries[e].first_accessor)
          /\ \A rd \in cache_entries[e].readers : DependsOn(deps, rd, x)

\* The pass is over and an active entry of a refinement nothing writes has two
\* readers.
C6_Witness ==
  /\ pc = "done"
  /\ \E e \in ActiveEntries :
       /\ ri_map[cache_entries[e].source].earliest_writer = 0
       /\ Cardinality(cache_entries[e].readers) >= 2

-----------------------------------------------------------------------------
(* C7 *)

\* C7: a block whose only statement is a Special that reads and writes one
\* InOut refinement A ends with exactly one cache entry for A, one swap-in block
\* for it before the statement and one swap-out block for it after.
C7_ReadModifyWrite ==
  \A A \in RefIds :
    (/\ pc = "done"
     /\ Len(block.stmts) = 1
     /\ block.refs[A].dir = "InOut"
     /\ block.stmts[1].kind = "special"
     /\ block.stmts[1].inputs = <<A>>
     /\ block.stmts[1].outputs = <<A>>)
    => /\ Cardinality({e \in 1..Len(cache_entries) : cache_entries[e].source = A}) = 1
       /\ Cardinality({x \in SwapIns : stmts[x].backing = A}) = 1
       /\ \A x \in SwapIns : stmts[x].backing = A => Before(order, x, 1)
       /\ Cardinality({x \in SwapOuts : stmts[x].backing = A}) = 1
       /\ \A x \in SwapOuts : stmts[x].backing = A => Before(order, 1, x)

-----------------------------------------------------------------------------
(* C8 *)

\* The transfer blocks a step of the loop adds to the list.
Inserted == (Len(stmts) + 1)..Len(stmts')

\* A step of the loop that schedules a statement.
Schedules == pc = "loop" /\ pc' \in {"loop", "final"}

\* Entry F is active, has not seen its earliest writer, and an entry the step
\* creates lies on bytes F has uncovered.
Overlapped(F) ==
  /\ F \in ActiveEntries
  /\ ~cache_entries[F].saw_earliest_writer
  /\ \E E \in (Len(cache_entries) + 1)..Len(cache_entries') :
       /\ RefUnit(cache_entries'[E].source) = RefUnit(cache_entries[F].source)
       /\ RangesOverlapList(cache_entries'[E].range, cache_entries[F].uncovered_ranges)

\* C8: when an entry created for statement S overlaps the uncovered range of an
\* active entry F that has not seen its earliest writer, a swap-in block for F
\* goes right after S (only transfer blocks of S between them), before every
\* reader of F; every reader of F depends on it, and it depends on S or on a
\* swap-out of S.
C8_OverlapSwapIn ==
  [][Schedules =>
       \A F \in 1..Len(cache_entries) :
         Overlapped(F) =>
           \E x \in Inserted :
             /\ stmts'[x].kind = "swap_in"
             /\ stmts'[x].ent = F
             /\ Before(order', Current, x)
             /\ \A y \in SeqToSet(order') :
                  (Before(order', Current, y) /\ Before(order', y, x)) => y \in Inserted
             /\ \A rd \in cache_entries'[F].readers :
                  Before(order', x, rd) /\ x \in SeqToSet(deps'[rd])
             /\ \E y \in SeqToSet(deps'[x]) :
                  \/ y = Current
                  \/ /\ y \in Inserted
                     /\ stmts'[y].kind = "swap_out"
                     /\ Current \in SeqToSet(deps'[y])]_vars

\* A swap-in block that an overlap asked for sits between two reads of its
\* refinement.
C8_Witness ==
  \E x \in SwapIns :
    /\ stmts[x].why = "overlap"
    /\ \E s \in Originals : s \in cache_entries[stmts[x].ent].readers
    /\ \E s \in Originals :
         /\ Before(order, s, x)
         /\ stmts[x].backing \in BufferReads(block.stmts[s])

-----------------------------------------------------------------------------
(* C9 *)

\* C9: when statement S writes R, every alias B of R that overlaps R and holds
\* a current entry gets a swap-in block for that entry after S, B no longer
\* points at the entry, and the swap-in depends, directly or through other
\* statements, on a transfer of the write to the backing memory of R that
\* depends on S: a swap-out block of R, or S itself when the transfer is a
\* block at the end of the sub-block S.
C9_AliasSwapIn ==
  [][Schedules =>
       \A R \in BufferWrites(stmts[Current]) : \A B \in RefIds :
         (/\ B # R
          /\ block.refs[B].base = block.refs[R].base
          /\ AliasOverlap(R, B)
          /\ ri_map[B].cache_entry # 0)
         => \E x \in Inserted :
              /\ stmts'[x].kind = "swap_in"
              /\ stmts'[x].ent = ri_map[B].cache_entry
              /\ Before(order', Current, x)
              /\ ri_map'[B].cache_entry # ri_map[B].cache_entry
              /\ \/ \E t \in Inserted :
                      /\ stmts'[t].kind = "swap_out"
                      /\ stmts'[t].backing = R
                      /\ DependsOn(deps', x, t)
                      /\ DependsOn(deps', t, Current)
                 \/ /\ IsBlock(stmts'[Current])
                    /\ \E k \in 1..Len(stmts'[Current].stmts) :
                         /\ stmts'[Current].stmts[k].kind = "write_slice_of"
                         /\ stmts'[Current].stmts[k].dst = <<R, "_storage">>
                    /\ DependsOn(deps', x, Current)]_vars

-----------------------------------------------------------------------------
(* C10 *)

WritesThrough(s, R, internal) ==
  \E k \in 1..Len(bound[s]) :
    /\ Accesses(block.stmts[s])[k].ri = R
    /\ IsWriteDir(Accesses(block.stmts[s])[k].dir)
    /\ bound[s][k] # 0
    /\ cache_entries[bound[s][k]].is_internal = internal

-----------------------------------------------------------------------------
(* C11 *)

\* C11: the names of the cache entries created so far are pairwise distinct and
\* differ from the name of every refinement the block had before scheduling.
C11_NamesDistinct ==
  /\ \A e, f \in 1..Len(cache_entries) :
       e # f => cache_entries[e].name # cache_entries[f].name
  /\ \A e \in 1..Len(cache_entries) : \A r \in RefIds : cache_entries[e].name # RefName(r)

-----------------------------------------------------------------------------
(* C12 *)

\* C12: the dependency graph is acyclic: every dep of every statement of the
\* list, original or inserted, is a statement that comes strictly earlier in
\* the list.  It holds of the final list and of the list after every step.
C12_DepsPointEarlier ==
  \A x \in SeqToSet(order) : \A y \in SeqToSet(deps[x]) :
    /\ y \in SeqToSet(order)
    /\ Before(order, y, x)

\* The pass is over; a swap-in block depends on a swap-out block that depends
\* on an original statement, and an original statement depends on a swap-in.
C12_Witness ==
  /\ pc = "done"
  /\ \E x \in SwapIns : \E y \in SwapOuts : \E s \in Originals :
       y \in SeqToSet(deps[x]) /\ s \in SeqToSet(deps[y])
  /\ \E s \in Originals : \E x \in SwapIns : x \in SeqToSet(deps[s])

-----------------------------------------------------------------------------
(* C13 *)

\* C13: after RebuildTransitiveDeps, no statement has a direct dep on a
\* statement B that it also reaches through a dep path of length greater than
\* 1, and no statement lists the same dep twice.
C13_NoRedundantDeps ==
  pc = "done" =>
    \A x \in SeqToSet(order) :
      /\ \A B \in SeqToSet(deps[x]) :
           ~\E y \in SeqToSet(deps[x]) : DependsOn(deps, y, B)
      /\ Len(deps[x]) = Cardinality(SeqToSet(deps[x]))

-----------------------------------------------------------------------------
(* C14 *)

\* C14: a block whose one statement is Load A, A an In refinement no larger than
\* the cache, ends with exactly one cache entry, named A^0, of range [0, size);
\* exactly one swap-in block, named swap_in_A^0, before the load; the load's
\* source rewritten to A^0; and refinements named A^0 and A in the block.
C14_SingleLoad ==
  \A A \in RefIds :
    (/\ pc = "done"
     /\ Len(block.stmts) = 1
     /\ block.stmts[1] = Load(A)
     /\ block.refs[A].dir = "In"
     /\ RefSize(A) <= mem_bytes)
    => /\ Len(cache_entries) = 1
       /\ cache_entries[1].source = A
       /\ cache_entries[1].name = RefName(A) \o <<Caret, 0>>
       /\ cache_entries[1].range = <<0, RefSize(A)>>
       /\ Cardinality(SwapIns) = 1
       /\ \A x \in SwapIns :
            /\ stmts[x].name = <<"swap_in_", RefName(A) \o <<Caret, 0>>>>
            /\ stmts[x].ent = 1
            /\ order = <<x, 1>>
       /\ bound[1] = <<1>>
       /\ \E k \in 1..Len(block_refs) : block_refs[k].into = RefName(A) \o <<Caret, 0>>
       /\ \E k \in 1..Len(block_refs) : block_refs[k].into = RefName(A)

\* The pass is over for a block that loads an In refinement as large as the
\* cache.
C14_Witness ==
  /\ pc = "done"
  /\ Len(block.stmts) = 1
  /\ block.stmts[1].kind = "load"
  /\ block.refs[block.stmts[1].from].dir = "In"
  /\ RefSize(block.stmts[1].from) = mem_bytes
  /\ Len(cache_entries) = 1

-----------------------------------------------------------------------------
(* C15 *)

\* The refinements the statements of the block access.
Accessed ==
  UNION {BufferReads(block.stmts[s]) \cup BufferWrites(block.stmts[s]) : s \in Originals}

\* The sum of the full sizes of a set of refinements.
RECURSIVE SumSizes(_)
SumSizes(S) ==
  IF S = {} THEN 0
  ELSE LET r == CHOOSE x \in S : TRUE IN RefSize(r) + SumSizes(S \ {r})

\* The statements only read, what they read lies on one unit, and the full
\* sizes of what they read sum to at most the size of the cache.
ReadsThatFit ==
  /\ \A s \in Originals : BufferWrites(block.stmts[s]) = {}
  /\ \A a, b \in Accessed : RefUnit(a) = RefUnit(b)
  /\ SumSizes(Accessed) <= mem_bytes

\* C15: when the statements only read refinements of one unit whose full sizes
\* sum to at most mem_bytes, every statement is planned by the first strategy
\* (no swaps, full size); each accessed refinement gets exactly one cache entry,
\* of its full size; the ranges are pairwise disjoint and packed from offset 0;
\* each entry gets exactly one swap-in block and there is no swap-out block.
C15_NoEviction ==
  (pc = "done" /\ ReadsThatFit) =>
    /\ \A s \in Originals : plans[s] = 1
    /\ \A r \in RefIds :
         Cardinality({e \in 1..Len(cache_entries) : cache_entries[e].source = r})
           = IF r \in Accessed THEN 1 ELSE 0
    /\ \A e \in 1..Len(cache_entries) :
         /\ RangeSize(cache_entries[e].range) = RefSize(cache_entries[e].source)
         /\ 0 <= cache_entries[e].range[1]
         /\ cache_entries[e].range[2] <= SumSizes(Accessed)
         /\ Cardinality({x \in SwapIns : stmts[x].ent = e}) = 1
    /\ \A e, f \in 1..Len(cache_entries) :
         e # f => ~RangesOverlap(cache_entries[e].range, cache_entries[f].range)
    /\ SwapOuts = {}

\* The pass is over for three reading statements; two refinements of one size
\* lie at offset 0 and right after it.
C15_Witness ==
  /\ pc = "done"
  /\ ReadsThatFit
  /\ Len(block.stmts) = 3
  /\ \E e, f \in 1..Len(cache_entries) :
       /\ cache_entries[e].range[1] = 0
       /\ cache_entries[f].range[1] = cache_entries[e].range[2]
       /\ RangeSize(cache_entries[f].range) = RangeSize(cache_entries[e].range)
       /\ cache_entries[e].first_accessor # cache_entries[f].first_accessor

-----------------------------------------------------------------------------
(* C16 *)

\* The swap-out blocks scheduled so far for the entries of refinement r, in a
\* list of statements.
SwapOutsOf(list, r) ==
  {x \in 1..Len(list) : list[x].kind = "swap_out" /\ list[x].backing = r}

\* C16: saw_final_write of every RefInfo is false at first; it is true exactly
\* when a swap-out block for an entry of the RefInfo has been scheduled; it
\* turns true in the step that schedules the first such block and never turns
\* false again.
C16_SawFinalWrite ==
  /\ \A r \in RefIds : ~ri_map[r].saw_final_write
  /\ [][\A r \in RefIds :
           /\ ri_map[r].saw_final_write <=> SwapOutsOf(stmts, r) # {}
           /\ ri_map'[r].saw_final_write <=> SwapOutsOf(stmts', r) # {}
           /\ ri_map[r].saw_final_write => ri_map'[r].saw_final_write
           /\ (~ri_map[r].saw_final_write /\ ri_map'[r].saw_final_write) =>
                /\ SwapOutsOf(stmts, r) = {}
                /\ SwapOutsOf(stmts', r) \subseteq Inserted]_vars

\* A RefInfo has seen its final write and two swap-out blocks have been
\* scheduled for it, by different statements; another refinement the block
\* writes to has seen none.
C16_Witness ==
  /\ \E r \in RefIds :
       /\ ri_map[r].saw_final_write
       /\ \E x, y \in SwapOutsOf(stmts, r) : stmts[x].at # stmts[y].at
  /\ \E r \in RefIds :
       /\ IsWriteDir(block.refs[r].dir)
       /\ ~ri_map[r].saw_final_write

-----------------------------------------------------------------------------
(* C17 *)

\* C17: the step that schedules a statement rewrites each of its name slots
\* (the names of a Load, Store or Special, the `from` of every refinement of a
\* sub-block that is not None) to a cache entry: the binder finds an entry for
\* every slot, the source of the entry is the refinement the slot named, and the
\* entry is the current entry of that refinement as the statement is scheduled
\* (an entry internal to the sub-block stops being current once the names are
\* rewritten).  No other step changes what a statement is bound to.
C17_Bindings ==
  [][/\ Schedules =>
          /\ Len(bound'[Current]) = Len(BinderUpdates(block.stmts[Current]))
          /\ \A k \in 1..Len(bound'[Current]) :
               /\ bound'[Current][k] \in 1..Len(cache_entries')
               /\ cache_entries'[bound'[Current][k]].source
                    = BinderUpdates(block.stmts[Current])[k]
               /\ \/ ri_map'[BinderUpdates(block.stmts[Current])[k]].cache_entry
                       = bound'[Current][k]
                  \/ /\ cache_entries'[bound'[Current][k]].is_internal
                     /\ bound'[Current][k] > Len(cache_entries)
                     /\ ri_map'[BinderUpdates(block.stmts[Current])[k]].cache_entry = 0
     /\ \A s \in Originals : (Schedules /\ s = Current) \/ bound'[s] = bound[s]]_vars

\* The pass is over; a statement is bound to a later entry of a refinement that
\* had one before, and a sub-block to two entries, one of them internal to it.
C17_Witness ==
  /\ pc = "done"
  /\ \E s \in Originals : \E k \in 1..Len(bound[s]) :
       \E e \in 1..Len(cache_entries) :
         e < bound[s][k] /\ cache_entries[e].source = cache_entries[bound[s][k]].source
  /\ \E s \in Originals :
       /\ Cardinality(SeqToSet(bound[s])) = 2
       /\ \E k \in 1..Len(bound[s]) : cache_entries[bound[s][k]].is_internal

-----------------------------------------------------------------------------
(* C18 *)

\* Refinement r of the block as it was before scheduling is in the refinement
\* list.
Present(r) ==
  \E k \in 1..Len(block_refs) : block_refs[k] = OriginalRefs(block.refs, block.names)[r]

\* C18: after the pass, an original refinement is in the refinement list of the
\* block if and only if it is used, that is, some inserted transfer block
\* references its backing memory; the others are pruned.
C18_PresentIffUsed ==
  pc = "done" =>
    \A r \in RefIds :
      /\ ri_map[r].used <=> \E x \in SwapIns \cup SwapOuts : stmts[x].backing = r
      /\ Present(r) <=> ri_map[r].used

-----------------------------------------------------------------------------
(* C19 *)

\* C19: the plan a statement is scheduled with is the plan of the first
\* strategy that succeeds, in the order no-swaps full, no-swaps partial,
\* with-swaps full, with-swaps partial, fallback full, fallback partial: every
\* strategy before it failed, and the fallback partial plan is made for blocks
\* only.
C19_FirstSuccess ==
  [][Schedules =>
       \E ios \in IOGather(stmts[Current]) : \E st \in {Invalidated(ios)} :
         /\ plans'[Current] \in 1..6
         /\ Strategy(plans'[Current], IsBlock(stmts[Current]), ios,
                     st.m.ri, st.m.ents, st.m.active).ok
         /\ \A k \in 1..(plans'[Current] - 1) :
              ~Strategy(k, IsBlock(stmts[Current]), ios, st.m.ri, st.m.ents, st.m.active).ok
         /\ plans'[Current] = 6 => IsBlock(stmts[Current])
         /\ cache_entries' =
              Scheduled(st, Strategy(plans'[Current], IsBlock(stmts[Current]), ios,
                                     st.m.ri, st.m.ents, st.m.active).plan,
                        Current).m.ents]_vars

\* The pass is over; a sub-block got its plan from the last strategy, after the
\* five before it failed, and another statement from the first.
C19_Witness ==
  /\ pc = "done"
  /\ \E s \in Originals : plans[s] = 6 /\ IsBlock(block.stmts[s])
  /\ \E s \in Originals : plans[s] = 1 /\ BinderUpdates(block.stmts[s]) # <<>>

-----------------------------------------------------------------------------
(* C20 *)

\* C20: for the sub-block about to be scheduled, the placement each partial
\* strategy builds for an IO of the sub-block (MakePartialPlacements of the IOs
\* for fallback partial, of the todo IOs of the unit for no-swaps partial and
\* with-swaps partial) has the byte size of the interior shape of the
\* sub-block's refinement, is internal exactly when that is smaller than the
\* size of the refinement in the cache, and then carries the access affines of
\* the sub-block's refinement.
C20_PartialPlacements ==
  (pc = "loop" /\ IsBlock(stmts[Current])) =>
    \A ios \in IOGather(stmts[Current]) : \A st \in {Invalidated(ios)} :
      LET todos == GatherPlacementState(ios, st.m.ri, st.m.ents).todos
          Good(pl, io) ==
            /\ pl.p.size = io.interior_shape
            /\ pl.key.cache_shape = io.interior_shape
            /\ pl.p.is_internal <=> io.interior_shape < RefSize(io.ri)
            /\ pl.p.is_internal => pl.key.access = io.access
      IN \A i \in 1..Len(ios) :
           /\ Good(MakePartialPlacements(ios)[i], ios[i])
           /\ \A u \in Units : \A j \in 1..Len(todos[u]) :
                todos[u][j].ri = ios[i].ri => Good(TodoPartials(todos)[u][j], ios[i])

-----------------------------------------------------------------------------
(* C21 *)

\* C21: when a statement is scheduled with a no-swaps plan, every entry the
\* step creates lies on no byte of the range of an active entry E of its unit,
\* unless E has seen its earliest writer and the refinement of E is not among
\* the existing entries the statement uses; and the step inserts no swap-in
\* block for an overlapped entry.
C21_NoSwapsPlan ==
  [][(Schedules /\ plans'[Current] \in {1, 2}) =>
       /\ \A ios \in IOGather(stmts[Current]) : \A st \in {Invalidated(ios)} :
            \A N \in (Len(cache_entries) + 1)..Len(cache_entries') :
              \A E \in SeqToSet(active[RefUnit(cache_entries'[N].source)]) :
                RangesOverlap(cache_entries'[N].range, cache_entries[E].range) =>
                  /\ st.m.ents[E].saw_earliest_writer
                  /\ PlanCount(GatherPlacementState(ios, st.m.ri, st.m.ents).plan,
                               PlacementKey(cache_entries[E].source,
                                            RefSize(cache_entries[E].source), <<>>)) = 0
       /\ \A x \in Inserted : stmts'[x].why # "overlap"]_vars

\* A statement scheduled with a no-swaps plan got an entry on the bytes of an
\* earlier entry of the unit that has seen its earliest writer, and that
\* earlier entry has no swap-in block.
C21_Witness ==
  \E s \in Originals : \E N, E \in 1..Len(cache_entries) :
    /\ plans[s] = 1
    /\ \E k \in 1..Len(bound[s]) : bound[s][k] = N
    /\ \A t \in Originals : t > s => \A k \in 1..Len(bound[t]) : bound[t][k] # N
    /\ E < N
    /\ RefUnit(cache_entries[E].source) = RefUnit(cache_entries[N].source)
    /\ RangesOverlap(cache_entries[N].range, cache_entries[E].range)
    /\ cache_entries[E].saw_earliest_writer
    /\ \A x \in SwapIns : stmts[x].ent # E

-----------------------------------------------------------------------------
(* C22 *)

\* The offset of a unit after the first n placements, as the claim has it: every
\* distinct placement key of the unit advances it by its size rounded up to a
\* multiple of a.
RECURSIVE OffsetAfter(_, _, _, _)
OffsetAfter(placements, n, u, a) ==
  IF n = 0 THEN 0
  ELSE OffsetAfter(placements, n - 1, u, a) +
       (IF /\ RefUnit(placements[n].key.ri) = u
           /\ \A j \in 1..(n - 1) : placements[j].key # placements[n].key
        THEN CHOOSE m \in placements[n].p.size..(placements[n].p.size + a - 1) : m % a = 0
        ELSE 0)

\* C22: for the statement about to be scheduled, the fallback plan of its full
\* placements and of its partial placements is a function of the placements
\* alone: it succeeds exactly when the offset of every unit, advanced from 0 by
\* the size of each distinct key rounded up to the alignment (4 when the option
\* is 0), ends at most at mem_bytes; the plan then holds exactly the distinct
\* keys, each a new placement (no existing entry) at [offset, offset + size) for
\* the offset its unit had reached.
C22_Fallback ==
  pc = "loop" =>
    \A ios \in IOGather(stmts[Current]) :
      \A pl \in {MakeFullPlacements(ios), MakePartialPlacements(ios)} :
        \A a \in {IF options.alignment = 0 THEN 4 ELSE options.alignment} :
          \A r \in {TryMakeFallbackPlan(pl)} :
            /\ r.ok <=> \A u \in Units : OffsetAfter(pl, Len(pl), u, a) <= options.mem_kib * 1024
            /\ r.ok =>
                 /\ \A k \in 1..Len(r.plan) :
                      /\ r.plan[k].p.entry = 0
                      /\ \E i \in 1..Len(pl) : pl[i].key = r.plan[k].key
                      /\ \A j \in 1..Len(r.plan) : r.plan[j].key = r.plan[k].key => j = k
                 /\ \A i \in 1..Len(pl) :
                      (\A j \in 1..(i - 1) : pl[j].key # pl[i].key) =>
                        \E k \in 1..Len(r.plan) :
                          /\ r.plan[k].key = pl[i].key
                          /\ r.plan[k].p.size = pl[i].p.size
                          /\ r.plan[k].p.range =
                               <<OffsetAfter(pl, i - 1, RefUnit(pl[i].key.ri), a),
                                 OffsetAfter(pl, i - 1, RefUnit(pl[i].key.ri), a) + pl[i].p.size>>

\* A statement was scheduled by the full fallback plan with the default
\* alignment: its first entry starts at 0 and ends off the alignment, its
\* second starts at the next multiple of 4.
C22_Witness ==
  /\ options.alignment = 0
  /\ \E s \in Originals : plans[s] = 5 /\
       \E e1, e2 \in 1..Len(cache_entries) :
         /\ cache_entries[e1].first_accessor = s
         /\ cache_entries[e2].first_accessor = s
         /\ cache_entries[e1].range[1] = 0
         /\ cache_entries[e1].range[2] % 4 # 0
         /\ cache_entries[e2].range[1] > cache_entries[e1].range[2]
         /\ cache_entries[e2].range[1] % 4 = 0
         /\ cache_entries[e2].range[1] < cache_entries[e1].range[2] + 4

-----------------------------------------------------------------------------
(* C23 *)

\* The full sizes of the distinct refinements of the IOs sum to at most
\* mem_bytes on every unit.
FitsTogether(ios) ==
  \A u \in Units :
    SumSizes({r \in RefIds : RefUnit(r) = u /\ \E i \in 1..Len(ios) : ios[i].ri = r})
      <= mem_bytes

\* C23: whenever the full sizes of the distinct refinements of the statement
\* about to be scheduled sum to at most mem_bytes on every unit, the fallback
\* plan of its full placements exists and the step that follows does not raise
\* ResourceExhausted.
C23_FallbackFits ==
  [][pc = "loop" =>
       \A ios \in IOGather(stmts[Current]) :
         FitsTogether(ios) =>
           /\ TryMakeFallbackPlan(MakeFullPlacements(ios)).ok
           /\ pc' # "exhausted"]_vars

-----------------------------------------------------------------------------
(* C24 *)

\* The calls of TryPlaceInRanges the no-swaps and with-swaps strategies make for
\* the todos g of a statement: [plan, placements, ranges], unit by unit, a unit
\* being reached when the units before it were placed, and the with-swaps
\* strategy when the no-swaps strategies have failed.
PlaceCalls(g, ents, act) ==
  LET Call(plan, u, with_swaps) ==
        [plan |-> plan, placements |-> TodoFulls(g.todos)[u],
         ranges |-> IF with_swaps
                    THEN SwapRanges(act[u], 1, <<<<0, mem_bytes>>>>, plan, ents)
                    ELSE NoSwapRanges(act[u], 1, <<<<0, mem_bytes>>>>, plan, ents)]
      Result(c) == TryPlaceInRanges(c.plan, c.placements, 1, c.ranges)
      First(w) == Call(g.plan, 0, w)
      Tried == {w \in BOOLEAN :
                  w => /\ ~TryMakePlanWithNoSwaps(g.plan, TodoFulls(g.todos), ents, act).ok
                       /\ ~TryMakePlanWithNoSwaps(g.plan, TodoPartials(g.todos), ents, act).ok}
  IN {First(w) : w \in {b \in Tried : g.todos[0] # <<>>}}
     \cup {Call(g.plan, 1, w) : w \in {b \in Tried : g.todos[0] = <<>> /\ g.todos[1] # <<>>}}
     \cup {Call(Result(First(w)).plan, 1, w) :
             w \in {b \in Tried : /\ g.todos[0] # <<>>
                                   /\ g.todos[1] # <<>>
                                   /\ Result(First(b)).ok}}

\* What is left of the free range ranges[k] before the i-th placement of q when
\* the placements before it are where plan has them: the placements that lie in
\* the range are taken off its beginning.
FreeBefore(ranges, k, q, i, plan) ==
  LET ends == {plan[j].p.range[2] :
                 j \in {x \in 1..Len(plan) :
                          /\ plan[x].p.entry = 0
                          /\ \E h \in 1..(i - 1) : q[h].key = plan[x].key
                          /\ ranges[k][1] <= plan[x].p.range[1]
                          /\ plan[x].p.range[2] <= ranges[k][2]}}
  IN <<IF ends = {} THEN ranges[k][1] ELSE CHOOSE e \in ends : \A f \in ends : f <= e,
       ranges[k][2]>>

\* The free ranges large enough for the i-th placement of q.
LargeEnough(ranges, q, i, plan) ==
  {k \in 1..Len(ranges) : RangeSize(FreeBefore(ranges, k, q, i, plan)) >= q[i].p.size}

\* The free ranges of least waste for the i-th placement of q.
LeastWaste(ranges, q, i, plan) ==
  {k \in LargeEnough(ranges, q, i, plan) :
     \A j \in LargeEnough(ranges, q, i, plan) :
       RangeSize(FreeBefore(ranges, k, q, i, plan)) <=
         RangeSize(FreeBefore(ranges, j, q, i, plan))}

\* C24: for every call of TryPlaceInRanges the statement about to be scheduled
\* causes, and for every prefix q of its placements: placing q succeeds exactly
\* when placing q without its last placement succeeds and some free range left
\* by that is large enough for the last one; and when it succeeds, each
\* placement of q begins at the beginning of the earliest of the free ranges of
\* least waste among those large enough, the free ranges being what the
\* placements before it in q have left.
C24_BestFit ==
  pc = "loop" =>
    \A ios \in IOGather(stmts[Current]) : \A st \in {Invalidated(ios)} :
      \A c \in PlaceCalls(GatherPlacementState(ios, st.m.ri, st.m.ents),
                           st.m.ents, st.m.active) :
        \A n \in 1..Len(c.placements) :
          \A q \in {SubSeq(c.placements, 1, n)} :
            \A r \in {TryPlaceInRanges(c.plan, q, 1, c.ranges)} :
              \A prev \in {TryPlaceInRanges(c.plan, SubSeq(q, 1, n - 1), 1, c.ranges)} :
                /\ r.ok <=> (prev.ok /\ LargeEnough(c.ranges, q, n, prev.plan) # {})
                /\ r.ok =>
                     \A i \in 1..n :
                       \E k \in LeastWaste(c.ranges, q, i, r.plan) :
                         /\ \A j \in LeastWaste(c.ranges, q, i, r.plan) : k <= j
                         /\ r.plan[PlanFind(r.plan, q[i].key)].p.range =
                              <<FreeBefore(c.ranges, k, q, i, r.plan)[1],
                                FreeBefore(c.ranges, k, q, i, r.plan)[1] + q[i].p.size>>

\* A call that makes the plan of the statement places a placement for which
\* two free ranges are large enough, and it goes to the later one, which wastes
\* less.
C24_Witness ==
  /\ pc = "loop"
  /\ \E ios \in IOGather(stmts[Current]) : \E st \in {Invalidated(ios)} :
       \E c \in PlaceCalls(GatherPlacementState(ios, st.m.ri, st.m.ents),
                            st.m.ents, st.m.active) :
         \E r \in {TryPlaceInRanges(c.plan, c.placements, 1, c.ranges)} :
           /\ r.ok
           /\ \E i \in 1..Len(c.placements) :
                /\ Cardinality(LargeEnough(c.ranges, c.placements, i, r.plan)) > 1
                /\ \E k \in LargeEnough(c.ranges, c.placements, i, r.plan) :
                     /\ k > 1
                     /\ r.plan[PlanFind(r.plan, c.placements[i].key)].p.range[1] =
                          FreeBefore(c.ranges, k, c.placements, i, r.plan)[1]

-----------------------------------------------------------------------------
(* C25 *)

\* Statement Current, scheduled by this step with IOs ios, is bound to the
\* entry refinement r had when the plan was made (after the swap-ins for the
\* aliases the statement writes), and the step creates no entry for r.
Reuses(ios, r) ==
  \A st \in {Invalidated(ios)} :
    /\ \A k \in 1..Len(bound'[Current]) :
         BinderUpdates(block.stmts[Current])[k] = r =>
           bound'[Current][k] = st.m.ri[r].cache_entry
    /\ \A N \in (Len(cache_entries) + 1)..Len(cache_entries') :
         cache_entries'[N].source # r

\* Refinement r has an entry that has not seen its earliest writer when the
\* plan for IOs ios is made.
HasLiveEntry(ios, r) ==
  \A st \in {Invalidated(ios)} :
    /\ st.m.ri[r].cache_entry # 0
    /\ ~st.m.ents[st.m.ri[r].cache_entry].saw_earliest_writer

\* C25 as stated: whichever strategy makes the plan, a statement that accesses
\* a refinement whose current entry has not seen its earliest writer is bound to
\* that entry and gets no new entry for the refinement.
C25_ReuseEntry ==
  [][Schedules =>
       \A ios \in IOGather(stmts[Current]) : \A i \in 1..Len(ios) :
         HasLiveEntry(ios, ios[i].ri) => Reuses(ios, ios[i].ri)]_vars

\* C25, amended: when the plan is made by a no-swaps or with-swaps strategy, a
\* statement that accesses a refinement whose current entry has not seen its
\* earliest writer is bound to that entry and gets no new entry for the
\* refinement; when the plan is a fallback plan, the step creates a new entry
\* for every refinement the statement accesses, and the statement is bound to
\* new entries only.
C25_ReuseUnlessFallback ==
  [][Schedules =>
       \A ios \in IOGather(stmts[Current]) :
         /\ plans'[Current] \in 1..4 =>
              \A i \in 1..Len(ios) :
                HasLiveEntry(ios, ios[i].ri) => Reuses(ios, ios[i].ri)
         /\ plans'[Current] \in {5, 6} =>
              /\ \A i \in 1..Len(ios) :
                   \E N \in (Len(cache_entries) + 1)..Len(cache_entries') :
                     cache_entries'[N].source = ios[i].ri
              /\ \A k \in 1..Len(bound'[Current]) :
                   bound'[Current][k] > Len(cache_entries)]_vars

\* Two statements are bound to one entry, the earlier one by a no-swaps or
\* with-swaps plan; and a statement with a fallback plan is bound to a new
\* entry of a refinement whose entry before had not seen its earliest writer.
C25_Witness ==
  /\ \E s, t \in Originals :
       /\ s < t
       /\ plans[s] \in 1..4
       /\ plans[t] # 0
       /\ SeqToSet(bound[s]) \cap SeqToSet(bound[t]) # {}
  /\ \E s \in Originals : \E k \in 1..Len(bound[s]) :
       /\ plans[s] \in {5, 6}
       /\ \E e \in 1..(bound[s][k] - 1) :
            /\ cache_entries[e].source = cache_entries[bound[s][k]].source
            /\ ~cache_entries[e].saw_earliest_writer

-----------------------------------------------------------------------------
(* C26 *)

\* The cache entries the statement scheduled by this step writes through an
\* external placement: the entries, not internal to a sub-block, that the step
\* has made the statement the first accessor of, their refinement being written
\* by an IO of the statement that the plan places at the refinement's full size.
ExternallyWritten(ios) ==
  {e \in 1..Len(cache_entries') :
     /\ ~cache_entries'[e].is_internal
     /\ cache_entries'[e].first_accessor = Current
     /\ \E i \in 1..Len(ios) :
          /\ ios[i].ri = cache_entries'[e].source
          /\ IsWriteDir(ios[i].dir)
          /\ plans'[Current] = 6 => ios[i].interior_shape = RefSize(ios[i].ri)}

\* C26: the step that schedules statement S, for every cache entry S writes
\* through an external placement: every statement that was a reader of the
\* entry before the step and whose refinement overlaps the written one has S
\* among its dependencies after it, S is among the writers of the entry, and
\* the entry has seen its earliest writer after the step exactly when S is the
\* earliest writer of the entry's refinement.
C26_ExternalWrite ==
  [][Schedules =>
       \A ios \in IOGather(stmts[Current]) : \A e \in ExternallyWritten(ios) :
         /\ e <= Len(cache_entries) =>
              \A x \in cache_entries[e].readers :
                AliasOverlap(cache_entries[e].source, cache_entries[e].source) =>
                  \E k \in 1..Len(deps'[x]) : deps'[x][k] = Current
         /\ Current \in cache_entries'[e].writers
         /\ cache_entries'[e].saw_earliest_writer
              <=> ri_map[cache_entries'[e].source].earliest_writer = Current]_vars

\* An entry has two writers, so one of them is not the earliest writer of its
\* refinement, and has seen its earliest writer; one of the writers is a
\* dependency of a reader of the entry that was scheduled before it.
C26_Witness ==
  \E e \in 1..Len(cache_entries) :
    /\ cache_entries[e].saw_earliest_writer
    /\ Cardinality(cache_entries[e].writers) > 1
    /\ \E s \in cache_entries[e].writers : \E x \in cache_entries[e].readers :
         /\ s < x
         /\ x \in Originals
         /\ \E k \in 1..Len(deps[x]) : deps[x][k] = s

-----------------------------------------------------------------------------
(* C27 *)

\* C27: the step that schedules statement S, for every cache entry e that S
\* reads (a new one or one that existed): every statement that was a writer of
\* an entry covering the memory of e before the step (e itself, or an active
\* entry of the unit with uncovered bytes in the range of e) depends on S after
\* the step, directly or through other statements.
C27_ReadersBeforeWriters ==
  [][Schedules =>
       \A e \in 1..Len(cache_entries') :
         Current \in cache_entries'[e].readers =>
           \A f \in 1..Len(cache_entries) :
             (\/ f = e
              \/ /\ f \in SeqToSet(active[RefUnit(cache_entries'[e].source)])
                 /\ RangesOverlapList(cache_entries'[e].range,
                                      cache_entries[f].uncovered_ranges)) =>
               \A x \in cache_entries[f].writers : DependsOn(deps', x, Current)]_vars

-----------------------------------------------------------------------------
(* C28 *)

\* C28: the step that schedules statement S, for every cache entry e of a
\* refinement R that S writes through an external placement, W being the
\* swap-in readers of R and of the aliases of R gathered before the plan is
\* made: the step inserts a swap-out block for e exactly when R is Out or InOut
\* and had not seen its final write, or W is not empty.  Then it inserts one
\* such block; it comes after S with nothing between them but transfer blocks
\* that this step inserts after it has inserted the swap-out block; S is a
\* dependency of it; it is a dependency of every member of
\* W; and it is the dependency that the writers of the active entries e
\* overlaps are given.  Otherwise these writers are given S.
C28_SwapOut ==
  [][Schedules =>
       \A ios \in IOGather(stmts[Current]) : \A st \in {Invalidated(ios)} :
         \A e \in ExternallyWritten(ios) :
           \A R \in {cache_entries'[e].source} :
             \A X \in {{x \in Inserted : stmts'[x].kind = "swap_out" /\ stmts'[x].ent = e}} :
               \A ws \in {UNION {cache_entries[f].writers :
                             f \in {g \in SeqToSet(active[RefUnit(R)]) :
                                      /\ g # e
                                      /\ RangesOverlapList(cache_entries'[e].range,
                                                           cache_entries[g].uncovered_ranges)}}} :
                 /\ X # {} <=> \/ IsWriteDir(block.refs[R].dir) /\ ~ri_map[R].saw_final_write
                               \/ st.w[R] # {}
                 /\ Cardinality(X) <= 1
                 /\ \A x \in X :
                      /\ Before(order', Current, x)
                      /\ \A y \in SeqToSet(order') :
                           (Before(order', Current, y) /\ Before(order', y, x)) =>
                             (y \in Inserted /\ y > x)
                      /\ \E k \in 1..Len(deps'[x]) : deps'[x][k] = Current
                      /\ \A y \in st.w[R] : \E k \in 1..Len(deps'[y]) : deps'[y][k] = x
                      /\ \A y \in ws : \E k \in 1..Len(deps'[y]) : deps'[y][k] = x
                 /\ X = {} => \A y \in ws : \E k \in 1..Len(deps'[y]) : deps'[y][k] = Current]_vars

\* A swap-out block depends on the statement it was scheduled for and is a
\* dependency of a swap-in block; and a statement is a writer of an entry for
\* which no swap-out block was scheduled at that statement.
C28_Witness ==
  /\ \E x \in SwapOuts : \E y \in SwapIns :
       /\ \E k \in 1..Len(deps[y]) : deps[y][k] = x
       /\ \E k \in 1..Len(deps[x]) : deps[x][k] = stmts[x].at
  /\ \E e \in 1..Len(cache_entries) : \E s \in cache_entries[e].writers :
       /\ s \in Originals
       /\ ~cache_entries[e].is_internal
       /\ \A x \in SwapOuts : ~(stmts[x].at = s /\ stmts[x].ent = e)

-----------------------------------------------------------------------------
(* C29 *)

\* Every byte of the range of entry e lies in the range of an entry of the same
\* unit that was created after e.  (An uncovered stretch of the range begins at
\* the beginning of the range or at the end of a later entry.)
CompletelyCovered(e) ==
  \A p \in {cache_entries[e].range[1]}
           \cup {cache_entries[f].range[2] : f \in (e + 1)..Len(cache_entries)} :
    (cache_entries[e].range[1] <= p /\ p < cache_entries[e].range[2]) =>
      \E f \in (e + 1)..Len(cache_entries) :
        /\ RefUnit(cache_entries[f].source) = RefUnit(cache_entries[e].source)
        /\ cache_entries[f].range[1] <= p
        /\ p < cache_entries[f].range[2]

\* C29: at every statement boundary, a cache entry that is not internal to a
\* sub-block is in the active list of its unit exactly when some byte of its
\* range lies in no entry of the unit created after it; an entry internal to a
\* sub-block is in no active list.
C29_Retired ==
  \A e \in 1..Len(cache_entries) :
    IF cache_entries[e].is_internal
    THEN e \notin ActiveEntries
    ELSE /\ e \in SeqToSet(active[RefUnit(cache_entries[e].source)]) <=> ~CompletelyCovered(e)
         /\ \A u \in Units \ {RefUnit(cache_entries[e].source)} : e \notin SeqToSet(active[u])

-----------------------------------------------------------------------------
(* C30 *)

\* C30: at every statement boundary the active list of each unit is in
\* non-decreasing order of range.begin.
C30_ActiveSorted ==
  \A u \in Units : \A i, j \in 1..Len(active[u]) :
    i < j => cache_entries[active[u][i]].range[1] <= cache_entries[active[u][j]].range[1]

\* An active list holds an entry before an entry that was created earlier and
\* begins higher; an entry that is not internal to a sub-block is in no list.
C30_Witness ==
  /\ \E u \in Units : \E i, j \in 1..Len(active[u]) :
       /\ i < j
       /\ active[u][i] > active[u][j]
       /\ cache_entries[active[u][i]].range[1] < cache_entries[active[u][j]].range[1]
  /\ \E e \in 1..Len(cache_entries) :
       ~cache_entries[e].is_internal /\ e \notin ActiveEntries

-----------------------------------------------------------------------------
(* C31 *)

\* C31: the uncovered_ranges of every cache entry are non-empty intervals, no
\* two of them share a byte, and a byte lies in one of them exactly when it
\* lies in the range of the entry and in no range subtracted from it (the range
\* of an entry of the same unit created after it; nothing is subtracted from an
\* entry internal to a sub-block).  The free list the planner builds from
\* [0, mem_bytes) for the statement about to be scheduled is a list of
\* non-empty intervals, no two of which share a byte, too.
C31_RangeLists ==
  /\ \A e \in 1..Len(cache_entries) :
       \A ur \in {cache_entries[e].uncovered_ranges} :
         /\ \A i \in 1..Len(ur) : ur[i][1] < ur[i][2]
         /\ \A i, j \in 1..Len(ur) : i # j => ~RangesOverlap(ur[i], ur[j])
         /\ \A p \in {cache_entries[f].range[1] : f \in 1..Len(cache_entries)}
                     \cup {cache_entries[f].range[2] : f \in 1..Len(cache_entries)} :
              (\E i \in 1..Len(ur) : ur[i][1] <= p /\ p < ur[i][2])
              <=> /\ cache_entries[e].range[1] <= p
                  /\ p < cache_entries[e].range[2]
                  /\ ~\E f \in (e + 1)..Len(cache_entries) :
                        /\ ~cache_entries[e].is_internal
                        /\ RefUnit(cache_entries[f].source) = RefUnit(cache_entries[e].source)
                        /\ cache_entries[f].range[1] <= p
                        /\ p < cache_entries[f].range[2]
  /\ pc = "loop" =>
       \A ios \in IOGather(stmts[Current]) : \A st \in {Invalidated(ios)} :
         \A c \in PlaceCalls(GatherPlacementState(ios, st.m.ri, st.m.ents),
                              st.m.ents, st.m.active) :
           /\ \A i \in 1..Len(c.ranges) : c.ranges[i][1] < c.ranges[i][2]
           /\ \A i, j \in 1..Len(c.ranges) :
                i # j => ~RangesOverlap(c.ranges[i], c.ranges[j])

-----------------------------------------------------------------------------
(* C32 *)

\* C32: at every statement boundary, no entry internal to a sub-block is in an
\* active list, no RefInfo has an internal entry as its current cache entry,
\* and an internal entry a statement is bound to was created for that
\* statement: the statement is a block that holds the transfer of the entry.
C32_InternalConfined ==
  /\ \A e \in 1..Len(cache_entries) :
       cache_entries[e].is_internal => e \notin ActiveEntries
  /\ \A r \in RefIds :
       ri_map[r].cache_entry # 0 => ~cache_entries[ri_map[r].cache_entry].is_internal
  /\ \A s \in Originals : \A i \in 1..Len(bound[s]) :
       (bound[s][i] # 0 /\ cache_entries[bound[s][i]].is_internal) =>
         /\ IsBlock(stmts[s])
         /\ \E k \in 1..Len(stmts[s].stmts) :
              /\ stmts[s].stmts[k].kind \in {"read_slice_of", "write_slice_of"}
              /\ stmts[s].stmts[k].ent = bound[s][i]

\* A block is bound to an internal entry of a refinement, and a statement
\* scheduled after it, which accesses the same refinement, is bound to another
\* entry.
C32_Witness ==
  \E s \in Originals : \E i \in 1..Len(bound[s]) :
    /\ bound[s][i] # 0
    /\ cache_entries[bound[s][i]].is_internal
    /\ \E t \in 1..(s - 1) : \E j \in 1..Len(bound[t]) :
         /\ bound[t][j] # 0
         /\ bound[t][j] # bound[s][i]
         /\ cache_entries[bound[t][j]].source = cache_entries[bound[s][i]].source

-----------------------------------------------------------------------------
(* C33 *)

\* C33: every iteration of the loop visits an original statement, the one just
\* before the statement visited last (the last statement of the block at
\* first), and the loop ends with the iteration that visits the first one (or
\* with an exception), so each original statement is visited once, in reverse
\* runtime order, no inserted transfer block is visited, and the loop
\* terminates; nothing is visited after the loop, which is followed by the final
\* swap-ins and the cleanup of the deps and by nothing else; and after every
\* step the original statements are in the list in their original order.
C33_VisitsEachOnce ==
  [][/\ pc = "loop" =>
          /\ Current \in Originals
          /\ Current = (IF si = 0 THEN Len(block.stmts) ELSE si - 1)
          /\ si' = Current
          /\ pc' \in {"loop", "final", "exhausted"}
          /\ pc' = "loop" => Current > 1
          /\ pc' = "final" => Current = 1
     /\ pc # "loop" => si' = si
     /\ pc = "final" => pc' = "tdeps"
     /\ pc = "tdeps" => pc' = "done"
     /\ pc \notin {"done", "exhausted"}
     /\ \A a, b \in Originals :
          a < b => /\ a \in SeqToSet(order')
                   /\ b \in SeqToSet(order')
                   /\ Before(order', a, b)]_vars

\* Run has returned from a block of three statements; a swap-in and a swap-out
\* inserted during the loop lie between original statements in the list.
C33_Witness ==
  /\ pc = "done"
  /\ Len(block.stmts) = 3
  /\ \E x \in SwapIns : stmts[x].why # "final" /\ Before(order, 1, x) /\ Before(order, x, 3)
  /\ \E x \in SwapOuts : Before(order, 1, x) /\ Before(order, x, 3)

-----------------------------------------------------------------------------
(* C34 *)

-----------------------------------------------------------------------------
(* C35 *)

\* C35: in the plan made for the statement about to be scheduled, the
\* placements of distinct refinements on one unit (those of existing entries and
\* those of entries to create alike) have ranges that share no byte; and the
\* entries the scheduled statements are bound to, for distinct refinements on
\* one unit, have ranges that share no byte.
C35_DisjointPlacements ==
  /\ pc = "loop" =>
       \A ios \in IOGather(stmts[Current]) : \A st \in {Invalidated(ios)} :
         \A tp \in {TryMakePlan(IsBlock(stmts[Current]), ios, st.m.ri, st.m.ents, st.m.active)} :
           tp.ok =>
             \A i, j \in 1..Len(tp.plan) :
               (/\ tp.plan[i].key.ri # tp.plan[j].key.ri
                /\ RefUnit(tp.plan[i].key.ri) = RefUnit(tp.plan[j].key.ri))
               => ~RangesOverlap(tp.plan[i].p.range, tp.plan[j].p.range)
  /\ \A s \in Originals : \A i, j \in 1..Len(bound[s]) :
       (/\ bound[s][i] # 0
        /\ bound[s][j] # 0
        /\ cache_entries[bound[s][i]].source # cache_entries[bound[s][j]].source
        /\ RefUnit(cache_entries[bound[s][i]].source) = RefUnit(cache_entries[bound[s][j]].source))
       => ~RangesOverlap(cache_entries[bound[s][i]].range, cache_entries[bound[s][j]].range)

\* The plan of the statement about to be scheduled was made with swaps; it
\* keeps an existing entry for one refinement and places a new entry for
\* another refinement of the unit on an active entry the statement does not use.
C35_Witness ==
  /\ pc = "loop"
  /\ \E ios \in IOGather(stmts[Current]) : \E st \in {Invalidated(ios)} :
       \E tp \in {TryMakePlan(IsBlock(stmts[Current]), ios, st.m.ri, st.m.ents, st.m.active)} :
         /\ tp.ok
         /\ tp.strategy = 3
         /\ \E i, j \in 1..Len(tp.plan) :
              /\ tp.plan[i].p.entry # 0
              /\ tp.plan[j].p.entry = 0
              /\ RefUnit(tp.plan[i].key.ri) = RefUnit(tp.plan[j].key.ri)
              /\ \E e \in SeqToSet(st.m.active[RefUnit(tp.plan[j].key.ri)]) :
                   RangesOverlap(st.m.ents[e].range, tp.plan[j].p.range)

-----------------------------------------------------------------------------
(* C36 *)

\* The accesses statement x of the list makes to the cache: [ent, write].  An
\* original statement reads and writes the entries that have it as reader and
\* writer, and a sub-block fills and uses the entries internal to it; a swap-in
\* block writes its entry and a swap-out block reads it.
CacheAccesses(x) ==
  IF stmts[x].kind = "swap_in" THEN {[ent |-> stmts[x].ent, write |-> TRUE]}
  ELSE IF stmts[x].kind = "swap_out" THEN {[ent |-> stmts[x].ent, write |-> FALSE]}
  ELSE {[ent |-> e, write |-> x \in cache_entries[e].writers] :
          e \in {f \in 1..Len(cache_entries) :
                   x \in cache_entries[f].readers \cup cache_entries[f].writers}}
       \cup (IF IsBlock(stmts[x])
             THEN {[ent |-> stmts[x].stmts[k].ent, write |-> TRUE] :
                     k \in {h \in 1..Len(stmts[x].stmts) :
                              stmts[x].stmts[h].kind \in {"read_slice_of", "write_slice_of"}}}
             ELSE {})

\* C36: in the final list, when two statements access bytes of the cache of one
\* unit that overlap (the same entry, or entries whose ranges overlap) and one
\* of the two accesses writes, the later statement depends on the earlier one,
\* directly or through other statements.
C36_ConflictsOrdered ==
  pc = "done" =>
    \A x, y \in SeqToSet(order) :
      (/\ Before(order, x, y)
       /\ \E a \in CacheAccesses(x), b \in CacheAccesses(y) :
            /\ a.write \/ b.write
            /\ RefUnit(cache_entries[a.ent].source) = RefUnit(cache_entries[b.ent].source)
            /\ RangesOverlap(cache_entries[a.ent].range, cache_entries[b.ent].range))
      => DependsOn(deps, y, x)

-----------------------------------------------------------------------------
(* C37 *)

\* C37: at every point of the pass and at its end, the list holds at most one
\* swap-in block for any one cache entry.
C37_OneSwapIn ==
  \A e \in 1..Len(cache_entries) :
    Cardinality({x \in SwapIns : stmts[x].ent = e}) <= 1

-----------------------------------------------------------------------------
(* C38 *)

\* C38: at every statement boundary, the current cache entry of a RefInfo, if
\* it has one, is an entry of that refinement that is not internal to a
\* sub-block, is in the active list of its unit, and has its whole range as its
\* uncovered ranges.
C38_CurrentEntry ==
  \A r \in RefIds : \A ce \in {ri_map[r].cache_entry} :
    ce # 0 =>
      /\ cache_entries[ce].source = r
      /\ ~cache_entries[ce].is_internal
      /\ ce \in SeqToSet(active[RefUnit(r)])
      /\ cache_entries[ce].uncovered_ranges = <<cache_entries[ce].range>>

\* In the middle of the pass one RefInfo has a current entry, and another one
\* has none because its last entry, still in the active list, was overlapped in
\* part by a later entry.
C38_Witness ==
  /\ pc = "loop"
  /\ \E r \in RefIds : ri_map[r].cache_entry # 0
  /\ \E e \in ActiveEntries :
       /\ ri_map[cache_entries[e].source].cache_entry = 0
       /\ cache_entries[e].uncovered_ranges # <<cache_entries[e].range>>
       /\ \A f \in (e + 1)..Len(cache_entries) : cache_entries[f].source # cache_entries[e].source

-----------------------------------------------------------------------------
(* C39 *)

\* C39: for every two statements A and B of the list, A depends on B, directly
\* or through other statements, after RebuildTransitiveDeps exactly when it did
\* before.
C39_ReachabilityKept ==
  [][pc = "tdeps" =>
       \A a, b \in SeqToSet(order) :
         DependsOn(deps', a, b) <=> DependsOn(deps, a, b)]_vars

\* The cleanup is done; a reader of an entry, which ScheduleSwapIn had given the
\* swap-in block of the entry as a dep, no longer has that dep and still depends
\* on the block through another statement.
C39_Witness ==
  /\ pc = "done"
  /\ \E e \in 1..Len(cache_entries) : \E rd \in cache_entries[e].readers :
       \E x \in SwapIns :
         /\ stmts[x].ent = e
         /\ x \notin SeqToSet(deps[rd])
         /\ DependsOn(deps, rd, x)

-----------------------------------------------------------------------------
(* C40 *)

\* C40: when Run has thrown ResourceExhausted, the statement list is the list
\* of the original statements, as they were on entry, no statement has a dep,
\* and no statement has had a refinement name rewritten to a cache entry.
C40_NothingChanged ==
  pc = "exhausted" =>
    /\ order = Tuple([i \in 1..Len(block.stmts) |-> i])
    /\ stmts = block.stmts
    /\ \A x \in 1..Len(deps) : deps[x] = <<>>
    /\ \A s \in Originals : bound[s] = <<>>

====
